---- MODULE Spec2Model ----
(***************************************************************************)
(* State-machine model of src/processFounders.js: the retrying fetcher,    *)
(* the result extractor, the snapshot poller, the classifier call, the     *)
(* batch orchestrator, the progress checkpoint and the shutdown handler.   *)
(*                                                                         *)
(* One behaviour follows one working directory: the checkpoint file and    *)
(* the output files persist, and node processes are started one after the  *)
(* other on it.  Inside a process the only concurrency is node's event     *)
(* loop: code between two awaits is atomic, a signal handler or a timer    *)
(* callback runs only while the main flow is suspended at an await.  Every *)
(* action below is therefore one such atomic piece: from the resumption of *)
(* an await to the next await.                                             *)
(***************************************************************************)
EXTENDS Integers, Sequences, FiniteSets, TLC

(***************************************************************************)
(* Program constants.                                                      *)
(***************************************************************************)
BATCH_SIZE == 5
RECORDS_PER_RUN == 100
maxRetries == 5
initialDelay == 2000
maxDelay == 30000
\* backoffFactor, 1.5, as a fraction
backoffFactorNum == 3
backoffFactorDen == 2
maxAttempts == 10
\* sleep(2000) before getProfileDescription and sleep(5000) before a poll
handlesDelay == 2000
pollDelay == 5000

(***************************************************************************)
(* Bounds of the model.                                                    *)
(***************************************************************************)
\* Number of node processes started on the working directory: where the
\* environment answers nominally, and where it is unconstrained.
MaxRuns == 3
MaxChaosRuns == 1
\* Number of termination signals delivered over the whole behaviour.
MaxSignals == 2

\* The sizes of the input CSV (number of data rows).  An input of a size in
\* FreeSizes may meet an unconstrained environment: every response the
\* services and the file system can give.  Otherwise the environment answers
\* nominally, and the nondeterminism is in the signals and the timers.
FreeSizes == {0, 1, 2}
InputSizes == FreeSizes \cup {7, 103}

Min(a, b) == IF a <= b THEN a ELSE b

(***************************************************************************)
(* Progress checkpoint: progress.json.  The file holds the text            *)
(* JSON.stringify writes; the decimal numeral is modelled as its sequence  *)
(* of digits, most significant first.                                      *)
(***************************************************************************)
Missing == [kind |-> "missing", digits |-> <<>>]
Corrupt == [kind |-> "corrupt", digits |-> <<>>]

RECURSIVE Stringify(_)
\* JSON.stringify of a non-negative integer: its decimal digits.
Stringify(n) ==
    IF n < 10 THEN <<n>> ELSE Append(Stringify(n \div 10), n % 10)

RECURSIVE ParseDigits(_)
\* JSON.parse of a decimal numeral.
ParseDigits(ds) ==
    IF Len(ds) = 0 THEN 0
    ELSE 10 * ParseDigits(SubSeq(ds, 1, Len(ds) - 1)) + ds[Len(ds)]

\* A saveProgress that writes the last digit only.
ProgressFileOfLastDigit(index) == [kind |-> "json", digits |-> <<index % 10>>]

\* saveProgress(lastProcessedIndex): the file written when the write succeeds.
ProgressFileOf(index) == [kind |-> "json", digits |-> Stringify(index)]

\* A loader that ignores progress.json.
loadProgressFresh(file) == 0
\* loadProgress().lastProcessedIndex
loadProgress(file) ==
    IF file.kind = "json" THEN ParseDigits(file.digits) ELSE 0

(***************************************************************************)
(* Result extractor.  A link is the text of a URL, held by its parts:      *)
(* parses (new URL(link) succeeds), host, path (the pathname's segments    *)
(* between slashes, empty ones included), query.  isArray: the link is an  *)
(* array of texts and no text; its parts are those of the text new URL     *)
(* makes of it.                                                            *)
(***************************************************************************)
Link(parses, host, path, query) ==
    [parses |-> parses, host |-> host, path |-> path, query |-> query,
     isArray |-> FALSE]

\* "https://x.com/alice"
LinkAlice == Link(TRUE, "x.com", <<"alice">>, "")
\* "https://x.com/alice/status/123"
LinkStatus == Link(TRUE, "x.com", <<"alice", "status", "123">>, "")
\* "https://x.com/bob?lang=en"
LinkQuery == Link(TRUE, "x.com", <<"bob">>, "lang=en")
\* "https://x.com/constructor"
LinkCtor == Link(TRUE, "x.com", <<"constructor">>, "")
\* "https://example.org/x.com"
LinkNoHandle == Link(TRUE, "example.org", <<"x.com">>, "")
\* "https://example.com/alice"
LinkOther == Link(TRUE, "example.com", <<"alice">>, "")
\* "x.com/alice" (no scheme: new URL throws)
LinkBare == Link(FALSE, "", <<"x.com", "alice">>, "")
\* an organic item without a link field
NoLink == Link(FALSE, "", <<>>, "nolink")
\* an organic item that is null
NullItem == Link(FALSE, "", <<>>, "nullitem")
\* an organic item whose link is a number other than 0: {link: 5}
LinkNumber == Link(FALSE, "", <<>>, "number")

\* an organic item whose link is the array ["https://x.com/alice", "x.com"]:
\* new URL reads it as "https://x.com/alice,x.com"
LinkArray ==
    [Link(TRUE, "x.com", <<"alice,x.com">>, "") EXCEPT !.isArray = TRUE]

Links == {LinkAlice, LinkStatus, LinkQuery, LinkCtor, LinkNoHandle, LinkOther,
          LinkBare, LinkArray}
Items == Links \cup {NoLink, NullItem, LinkNumber}

Undefined == "undefined"
\* The values null and undefined where a link or a list of links is expected,
\* and null where a handle is expected (a capture of [^/?]+ is never empty).
NullLink == Link(FALSE, "", <<>>, "null")
UndefinedLink == Link(FALSE, "", <<>>, "undefined")
NullLinks == <<NullLink>>
NoHandle == ""

\* The texts of this model that contain the substring 'x.com'.
ContainsXCom(s) == s = "x.com"

\* item.link && item.link.includes('x.com'): for a text, 'x.com' is a
\* substring of it; for an array, 'x.com' is one of its elements (it is one
\* of LinkArray's).
IncludesXCom(l) ==
    /\ l # NoLink
    /\ IF l.isArray THEN l = LinkArray
       ELSE \/ ContainsXCom(l.host)
            \/ \E p \in 1..Len(l.path) : ContainsXCom(l.path[p])

\* The callback of filter (line 160) throws on the item: reading link of
\* null, or calling includes, which a number does not have.
FilterThrows(item) == item \in {NullItem, LinkNumber}
\* error.message of that TypeError.
FilterMessage(item) ==
    IF item = NullItem THEN "Cannot read properties of null (reading 'link')"
    ELSE "item.link.includes is not a function"
\* processSearchResults(data) throws: an item of data.organic makes the
\* callback of filter throw.
SearchThrows(organic) ==
    \E p \in 1..Len(organic) : FilterThrows(organic[p])
\* The message it throws with: that of the first such item.
SearchMessage(organic) ==
    FilterMessage(Head(SelectSeq(organic, FilterThrows)))

\* processSearchResults(data) when it returns: the x.com links of
\* data.organic, or null.
processSearchResults(organic) ==
    LET x_links == SelectSeq(organic, IncludesXCom)
    IN  IF Len(x_links) = 0 THEN NullLinks ELSE x_links

NonEmpty(seg) == seg # ""

\* The predicate of links.find in extractMainProfileLink.
IsMainProfile(l) ==
    /\ l.parses
    /\ Len(SelectSeq(l.path, NonEmpty)) = 1
    /\ l.query = ""

\* extractMainProfileLink(links): the first main profile link; undefined
\* when there is none, null when links is null.
extractMainProfileLink(links) ==
    IF links = NullLinks THEN NullLink
    ELSE LET found == SelectSeq(links, IsMainProfile)
         IN  IF Len(found) = 0 THEN UndefinedLink ELSE Head(found)

\* extractHandle(url) throws at line 191: url is truthy and has no match
\* method (an array).
ExtractHandleThrows(l) == l.isArray
\* (error.message of that TypeError is "url.match is not a function".)

\* extractHandle(url) when it returns: the capture of /x\.com\/([^/?]+)/, or null: the text
\* up to the next '/' or '?' that follows the first "x.com/" followed by such
\* a text.
extractHandle(l) ==
    IF l.parses /\ ContainsXCom(l.host) /\ Len(l.path) >= 1 /\ l.path[1] # ""
    THEN l.path[1]
    ELSE IF \E p \in 1..(Len(l.path) - 1) :
               ContainsXCom(l.path[p]) /\ l.path[p + 1] # ""
    THEN LET p == CHOOSE q \in 1..(Len(l.path) - 1) :
                     /\ ContainsXCom(l.path[q]) /\ l.path[q + 1] # ""
                     /\ \A r \in 1..(q - 1) :
                            ~(ContainsXCom(l.path[r]) /\ l.path[r + 1] # "")
         IN  l.path[p + 1]
    ELSE NoHandle

(***************************************************************************)
(* Records of the pipeline.  A field a JavaScript object does not have is  *)
(* held as Undefined (rank: 0, profile_url: UndefinedLink).  idx is the    *)
(* position of the InputRecord's row in the CSV and stands for the         *)
(* record's name, company and email.                                       *)
(***************************************************************************)
NoVerdict == [role |-> Undefined, rank |-> 0, confidence_reason |-> Undefined]
Verdict == [role |-> "Founder", rank |-> 9, confidence_reason |-> "bio"]

\* The ResultRecords processBatch pushes.
FailedRecord(idx, reason, url) ==
    [idx |-> idx, status |-> "failed", reason |-> reason, handle |-> NoHandle,
     profile_url |-> url, dm_status |-> Undefined, description |-> Undefined,
     analysis |-> NoVerdict]

ErrorRecord(idx, message) ==
    [idx |-> idx, status |-> "error", reason |-> message, handle |-> NoHandle,
     profile_url |-> UndefinedLink, dm_status |-> Undefined,
     description |-> Undefined, analysis |-> NoVerdict]

\* x || "" on a description
OrEmpty(x) == IF x = Undefined THEN "" ELSE x

\* A result entry whose status depends on the classifier's answer.
ProcessedRecordIfClassified(hi, profileData, analysis) ==
    [idx |-> hi.idx,
     status |-> IF analysis = NoVerdict THEN "error" ELSE "processed",
     reason |-> Undefined,
     handle |-> hi.handle, profile_url |-> hi.mainProfileUrl,
     dm_status |-> "open", description |-> OrEmpty(profileData.description),
     analysis |-> analysis]

ProcessedRecord(hi, profileData, analysis) ==
    [idx |-> hi.idx, status |-> "processed", reason |-> Undefined,
     handle |-> hi.handle, profile_url |-> hi.mainProfileUrl,
     dm_status |-> "open", description |-> OrEmpty(profileData.description),
     analysis |-> analysis]

\* The ProfileData entries getProfileDescription builds.
SuccessEntry(biography) ==
    [status |-> "success", canDm |-> "true",
     description |-> OrEmpty(biography), reason |-> "DMs are open"]
NotFoundEntry ==
    [status |-> "error", canDm |-> "true", description |-> "",
     reason |-> "Profile data not found but assuming DMs are open"]
\* `API Error: ${error.message}` for the messages of this model ("Cannot
\* read properties of null" stands for the TypeError of reading a property,
\* snapshot_id, status or url, of null).
ApiErrorReason(message) ==
    CASE message = "Request failed" -> "API Error: Request failed"
      [] message = "url.match is not a function" ->
            "API Error: url.match is not a function"
      [] message = "Cannot read properties of null" ->
            "API Error: Cannot read properties of null"
      [] message = "Failed to get profile data after maximum attempts" ->
            "API Error: Failed to get profile data after maximum attempts"
ApiErrorEntry(message) ==
    [status |-> "error", canDm |-> "true", description |-> "",
     reason |-> ApiErrorReason(message)]
\* What profileMap[handle] yields for a handle that is the name of a member
\* of Object.prototype and no key of profileMap: the inherited member, an
\* object with none of ProfileData's fields.
InheritedMember ==
    [status |-> Undefined, canDm |-> Undefined, description |-> Undefined,
     reason |-> Undefined]

\* Names of members of Object.prototype among the handles of this model.
PrototypeKeys == {"constructor"}

(***************************************************************************)
(* getProfileDescription, lines 267-293: from the terminal snapshot        *)
(* response to the ProfileData list.  A snapshot row is [handle, biography]*)
(* with handle = extractHandle(profile.url) (null for a row without url),  *)
(* or the row is null and reading its url throws, or its url is truthy and *)
(* no text (a number, an array) and extractHandle throws.                  *)
(***************************************************************************)
NullRow == "null row"
NoTextUrl == "url no text"

\* Line 273 throws for the row: profile.url of null, or url.match (line 191)
\* of a url that is no text.
RowThrows(row) == row.handle \in {NullRow, NoTextUrl}
\* error.message of that TypeError.
RowMessage(row) ==
    IF row.handle = NullRow THEN "Cannot read properties of null"
    ELSE "url.match is not a function"

\* Line 273 throws for a row of finalJSON.
ForEachThrows(finalJSON) ==
    /\ finalJSON.kind = "array"
    /\ \E r \in 1..Len(finalJSON.rows) : RowThrows(finalJSON.rows[r])
\* The message forEach throws with: that of the first such row.
ForEachMessage(finalJSON) ==
    RowMessage(Head(SelectSeq(finalJSON.rows, RowThrows)))

RECURSIVE BuildProfileMap(_, _)
\* finalJSON.forEach(...) over the rows, from the map built so far: a
\* function from the handles seen to their ProfileData (a later row
\* overwrites an earlier one).
BuildProfileMap(rows, map) ==
    IF rows = <<>> THEN map
    ELSE LET row == Head(rows)
             next == IF row.handle = NoHandle THEN map
                     ELSE [h \in DOMAIN map \cup {row.handle} |->
                             IF h = row.handle THEN SuccessEntry(row.biography)
                             ELSE map[h]]
         IN  BuildProfileMap(Tail(rows), next)

EmptyMap == [h \in {} |-> NotFoundEntry]

\* profileMap[handle] || {not found}
LookupProfile(profileMap, handle) ==
    IF handle \in DOMAIN profileMap THEN profileMap[handle]
    ELSE IF handle \in PrototypeKeys THEN InheritedMember
    ELSE NotFoundEntry

\* Lines 267-293 for a terminal finalJSON.
MapProfiles(handles, finalJSON) ==
    LET profileMap == IF finalJSON.kind = "array"
                      THEN BuildProfileMap(finalJSON.rows, EmptyMap)
                      ELSE EmptyMap
    IN  [p \in 1..Len(handles) |-> LookupProfile(profileMap, handles[p])]

\* A catch that gives up the list: the caller gets no entry for its handles.
ApiErrorProfilesNone(handles, message) == <<>>

\* The catch of getProfileDescription, lines 295-311.
ApiErrorProfiles(handles, message) ==
    [p \in 1..Len(handles) |-> ApiErrorEntry(message)]

(***************************************************************************)
(* The environment: what the services answer.                              *)
(***************************************************************************)
\* The lists of at most two members of S.
ShortSeqs(S) == {<<>>} \cup {<<a>> : a \in S} \cup {<<a, b>> : a \in S, b \in S}

\* The response to one request of fetchWithRetry.  kind is
\*   "neterr"    the request rejects (network, proxy, timeout),
\*   "badjson"   the body is no JSON text,
\*   "noorganic" the body parses and has neither the zero-results marker
\*               nor an organic field,
\*   "zero"      general.results_cnt === 0,
\*   "organic"   organic is the list of items (their links; an item may be
\*               null or carry a link that is no text: a number, an array),
\*   "malformed" organic is truthy and no array.
\* The organic lists are those of at most one item, and those of two items
\* with one item for each way the first loop treats an item: pending
\* (LinkAlice), on x.com and no main profile (LinkStatus), main profile
\* without a handle (LinkNoHandle), no link (NoLink), and the three that
\* throw (NullItem, LinkNumber, LinkArray).
FetchResponse(kind, organic) == [kind |-> kind, organic |-> organic]
NominalFetch == FetchResponse("organic", <<LinkAlice>>)
AllFetchResponses ==
    {FetchResponse(k, <<>>) :
        k \in {"neterr", "badjson", "noorganic", "zero", "malformed",
               "organic"}}
    \cup {FetchResponse("organic", <<a>>) : a \in Items}
    \cup {FetchResponse("organic", <<a, b>>) :
             a, b \in Items \ {LinkCtor, LinkQuery, LinkOther, LinkBare}}

\* The response to one snapshot poll: the request fails ("error"), the body
\* is null ("null"), {status: "running"} ("running"), an array of profile
\* rows ("array"), another object ("object"), or empty ("empty": data is
\* the empty string).  The arrays are those of at most one row, and those
\* of two rows that have a handle or make the lookup's construction throw.
Snapshot(kind, rows) == [kind |-> kind, rows |-> rows]
NullJSON == Snapshot("null", <<>>)
Row(handle, biography) == [handle |-> handle, biography |-> biography]
Rows == {Row("alice", "bio"), Row("alice", Undefined),
         Row("constructor", "bio"), Row(NoHandle, "bio"),
         Row(NullRow, Undefined), Row(NoTextUrl, "bio")}
NominalPoll == Snapshot("array", <<Row("alice", "bio")>>)
AllPollResponses ==
    {Snapshot(k, <<>>) :
        k \in {"error", "null", "running", "object", "empty", "array"}}
    \cup {Snapshot("array", <<a>>) : a \in Rows}
    \cup {Snapshot("array", <<a, b>>) :
             a, b \in Rows \ {Row(NoHandle, "bio")}}

\* The outcome of the classifier request: the parsed verdict, or a request
\* or parse failure.
AllClassifierResponses == {"verdict", "failure"}

(***************************************************************************)
(* State.                                                                  *)
(***************************************************************************)
VARIABLES
    \* the working directory
    numRecords,     \* parsed_data.data.length of csv_input/aish_seriesA.csv
    chaos,          \* whether the services' responses are unconstrained
    env,            \* process.env: BRIGHT_USERNAME and BRIGHT_PASSWORD
    progressFile,   \* progress.json
    outputs,        \* the files under output/, by path
    \* the node process
    pid,            \* number of processes started so far
    pc,             \* where the main flow is suspended
    exitCode,       \* -1 while the process runs
    isProcessing,   \* line 487
    sig,            \* "none", or "grace": handleShutdown awaits its timer
    currentResults, \* global.currentResults
    startIndex, endIndex, i,         \* processFounders
    j, attempt, batchResults, handleItems,  \* processBatch, fetchWithRetry
    delay,          \* ms of the main flow's pending timer (0: none)
    attempts, finalJSON, profileDataArray, k, \* getProfileDescription, loop 2
    \* history
    started,        \* calls of processBatch begun by this process
    appended,       \* batches whose results were pushed to currentResults
    sigBatch,       \* batch in flight when the signal arrived (-1: none)
    signals,        \* signals delivered over the behaviour
    ioFault,        \* a file write of this process failed
    lastSave,       \* the index progress.json was last written with (-1:
                    \* never, or a write failed since)
    writes,         \* by path: the writes of the file since the checkpoint
                    \* last wrapped around
    lastCall        \* the call that returned in the last step, if one did

fsVars == <<numRecords, chaos, env, progressFile, outputs>>
procVars == <<pid, pc, exitCode, isProcessing, sig, currentResults,
              startIndex, endIndex, i>>
batchVars == <<j, attempt, delay, batchResults, handleItems, attempts,
               finalJSON, profileDataArray, k>>
histKeep == <<started, appended, sigBatch, signals, ioFault, lastSave,
              writes>>
histVars == <<histKeep, lastCall>>
vars == <<fsVars, procVars, batchVars, histVars>>

\* Paths of the output files: 0 is output/output.json, n >= 1 is
\* output/batch<n>_output.json.  The summary output/batch<n>.json, written
\* after it, is not held: only whether its write succeeded is.
PartialPath == 0
LargestInput == CHOOSE n \in InputSizes : \A m \in InputSizes : m <= n
OutPaths == 0..((LargestInput \div RECORDS_PER_RUN) + 1)
NoFile == [status |-> "nofile", ids |-> <<>>]
NoWrites == [path \in OutPaths |-> 0]
\* The file JSON.stringify({results, metadata}) writes: metadata.status, and
\* the records of results by their idx.
OutputOf(results, status) ==
    [status |-> status, ids |-> [q \in 1..Len(results) |-> results[q].idx]]

\* The call that returned in the last step: fetchWithRetry with the kind of
\* the response it returned on ("null" when it returned null), the organic
\* list of that response and the number of the attempt that returned,
\* getProfileDescription with the value finalJSON had and the number of
\* polls made, or analyzeFounderProfile.
NoCall ==
    [fn |-> "none", value |-> "none", attempts |-> 0, json |-> NullJSON,
     organic |-> <<>>]
FetchReturned(value, n, organic) ==
    [fn |-> "fetchWithRetry", value |-> value, attempts |-> n,
     json |-> NullJSON, organic |-> organic]
ProfilesReturned(value, json, n) ==
    [fn |-> "getProfileDescription", value |-> value, attempts |-> n,
     json |-> json, organic |-> <<>>]
\* A poll after which the polling loop goes on: its request or the reading
\* of its body threw ("caught"), or the job is running.
PollSettled(value) ==
    [fn |-> "poll", value |-> value, attempts |-> 0, json |-> NullJSON,
     organic |-> <<>>]
\* analyzeFounderProfile with the outcome of its request.
AnalysisReturned(value) ==
    [fn |-> "analyzeFounderProfile", value |-> value, attempts |-> 0,
     json |-> NullJSON, organic |-> <<>>]

\* process.env.BRIGHT_USERNAME / BRIGHT_PASSWORD: unset, or a text.
CredentialValues == {Undefined, "", "' '", "user"}
\* value.replace(/['"]/g, '').trim()
StripCredential(v) == IF v = "' '" THEN "" ELSE v
\* A check of the raw variables only (line 10).
CredentialsOkUnstripped(username, password) ==
    /\ username \notin {Undefined, ""}
    /\ password \notin {Undefined, ""}
\* Lines 10 and 54: the process goes on past both credential checks.
CredentialsOk(username, password) ==
    /\ username \notin {Undefined, ""}
    /\ password \notin {Undefined, ""}
    /\ StripCredential(username) # ""
    /\ StripCredential(password) # ""
Environment(username, password) ==
    [username |-> username, password |-> password]
NominalEnv == Environment("user", "user")
Environments ==
    {Environment(u, p) : u \in CredentialValues, p \in CredentialValues}

Init ==
    /\ numRecords \in InputSizes
    /\ chaos \in BOOLEAN
    /\ chaos => numRecords \in FreeSizes
    /\ env \in IF chaos THEN Environments ELSE {NominalEnv}
    /\ progressFile \in {Missing, Corrupt}
    /\ outputs = [path \in OutPaths |-> NoFile]
    /\ pid = 0
    /\ pc = "none"
    /\ exitCode = 0
    /\ isProcessing = TRUE
    /\ sig = "none"
    /\ currentResults = <<>>
    /\ startIndex = 0 /\ endIndex = 0 /\ i = 0
    /\ j = 1 /\ attempt = 1 /\ batchResults = <<>> /\ handleItems = <<>>
    /\ delay = 0
    /\ attempts = 0 /\ finalJSON = NullJSON /\ profileDataArray = <<>>
    /\ k = 1
    /\ started = 0 /\ appended = 0 /\ sigBatch = -1 /\ signals = 0
    /\ ioFault = FALSE
    /\ lastSave = -1
    /\ writes = NoWrites
    /\ lastCall = NoCall

(***************************************************************************)
(* processFounders: the batches of the run's window.                       *)
(***************************************************************************)
\* batches.length for the window [s, e)
NumBatches(s, e) == ((e - s) + (BATCH_SIZE - 1)) \div BATCH_SIZE
\* batches[b].length
BatchLen(s, e, b) == Min(BATCH_SIZE, (e - s) - b * BATCH_SIZE)
\* The CSV row of batches[b][p] (p from 1).
ItemIdx(s, b, p) == s + b * BATCH_SIZE + (p - 1)

\* The body of the first loop of processBatch once fetchWithRetry has
\* returned searchData for the record idx: the ResultRecord pushed, or the
\* item pushed on handleItems.
HandleItem(idx, handle, url) ==
    [idx |-> idx, handle |-> handle, mainProfileUrl |-> url]
\* push: batchResults.push(record) is reached; pend: handleItems.push(item)
\* is reached.
Push(record) ==
    [push |-> TRUE, pend |-> FALSE, record |-> record,
     item |-> HandleItem(record.idx, NoHandle, UndefinedLink)]
Pending(item) ==
    [push |-> FALSE, pend |-> TRUE,
     record |-> ErrorRecord(item.idx, Undefined), item |-> item]

\* A first loop whose no-handle branch lacks its `continue`: the failed
\* record is pushed and the item goes on to handle resolution as well.
FirstLoopBodyFallsThrough(idx, searchData) ==
    IF searchData.kind = "null"
    THEN Push(FailedRecord(idx, "No search results found", UndefinedLink))
    ELSE IF searchData.kind = "malformed"
    THEN Push(ErrorRecord(idx, "data.organic.filter is not a function"))
    ELSE IF SearchThrows(searchData.organic)
    THEN Push(ErrorRecord(idx, SearchMessage(searchData.organic)))
    ELSE LET links == processSearchResults(searchData.organic)
             mainProfileUrl == extractMainProfileLink(links)
         IN  IF mainProfileUrl \in {NullLink, UndefinedLink}
             THEN Push(FailedRecord(idx, "No Twitter profile found",
                                    UndefinedLink))
             ELSE IF ExtractHandleThrows(mainProfileUrl)
             THEN Push(ErrorRecord(idx, "url.match is not a function"))
             ELSE LET handle == extractHandle(mainProfileUrl)
                      item == HandleItem(idx, handle, mainProfileUrl)
                  IN  IF handle = NoHandle
                      THEN [push |-> TRUE, pend |-> TRUE,
                            record |-> FailedRecord(idx,
                                "Could not extract Twitter handle",
                                mainProfileUrl),
                            item |-> item]
                      ELSE Pending(item)

\* A first loop without the test of line 356: a null searchData is read as
\* an empty list of results.
FirstLoopBodyNoNullTest(idx, searchData) ==
    IF searchData.kind = "malformed"
    THEN Push(ErrorRecord(idx, "data.organic.filter is not a function"))
    ELSE IF SearchThrows(searchData.organic)
    THEN Push(ErrorRecord(idx, SearchMessage(searchData.organic)))
    ELSE LET links == processSearchResults(searchData.organic)
             mainProfileUrl == extractMainProfileLink(links)
         IN  IF mainProfileUrl \in {NullLink, UndefinedLink}
             THEN Push(FailedRecord(idx, "No Twitter profile found",
                                    UndefinedLink))
             ELSE IF ExtractHandleThrows(mainProfileUrl)
             THEN Push(ErrorRecord(idx, "url.match is not a function"))
             ELSE LET handle == extractHandle(mainProfileUrl)
                  IN  IF handle = NoHandle
                      THEN Push(FailedRecord(idx,
                               "Could not extract Twitter handle",
                               mainProfileUrl))
                      ELSE Pending(HandleItem(idx, handle, mainProfileUrl))

FirstLoopBody(idx, searchData) ==
    IF searchData.kind = "null"
    THEN Push(FailedRecord(idx, "No search results found", UndefinedLink))
    ELSE IF searchData.kind = "malformed"
    THEN Push(ErrorRecord(idx, "data.organic.filter is not a function"))
    ELSE IF SearchThrows(searchData.organic)
    THEN Push(ErrorRecord(idx, SearchMessage(searchData.organic)))
    ELSE LET links == processSearchResults(searchData.organic)
             mainProfileUrl == extractMainProfileLink(links)
         IN  IF mainProfileUrl \in {NullLink, UndefinedLink}
             THEN Push(FailedRecord(idx, "No Twitter profile found",
                                    UndefinedLink))
             ELSE IF ExtractHandleThrows(mainProfileUrl)
             THEN Push(ErrorRecord(idx, "url.match is not a function"))
             ELSE LET handle == extractHandle(mainProfileUrl)
                  IN  IF handle = NoHandle
                      THEN Push(FailedRecord(idx,
                               "Could not extract Twitter handle",
                               mainProfileUrl))
                      ELSE Pending(HandleItem(idx, handle, mainProfileUrl))

\* fetchWithRetry, lines 107-128: whether the response makes the attempt
\* fail, and the value returned when it does not.
AttemptFails(response) == response.kind \in {"neterr", "badjson", "noorganic"}
\* A fetcher that returns null for the zero-results marker.
AttemptValueNullOnZero(response) ==
    IF response.kind = "zero" THEN FetchResponse("null", <<>>)
    ELSE response
AttemptValue(response) ==
    IF response.kind = "zero" THEN FetchResponse("organic", <<>>)
    ELSE response
NullData == FetchResponse("null", <<>>)
\* A budget test that allows one attempt more.
RetriesExhaustedLate(a) == a > maxRetries
RECURSIVE Pow(_, _)
\* Math.pow(b, n) for a natural n
Pow(b, n) == IF n = 0 THEN 1 ELSE b * Pow(b, n - 1)

\* A backoff that grows by initialDelay with every attempt.
LinearDelay(a) == Min(initialDelay * a, maxDelay)
\* fetchWithRetry, lines 139-142: the delay after failed attempt a.  The
\* product is a whole number of ms for every a the budget allows.
BackoffDelay(a) ==
    Min((initialDelay * Pow(backoffFactorNum, a - 1))
            \div Pow(backoffFactorDen, a - 1),
        maxDelay)

\* A fetcher that never gives up.
RetriesNeverExhausted(a) == FALSE
\* fetchWithRetry, line 134: the attempt budget is spent.
RetriesExhausted(a) == a >= maxRetries

(***************************************************************************)
(* saveProgress: the write may fail, and the failure is logged only.       *)
(***************************************************************************)
WriteOutcomes == IF chaos THEN BOOLEAN ELSE {TRUE}

SaveProgress(index, fault) ==
    \E ok \in WriteOutcomes :
        /\ progressFile' = IF ok THEN ProgressFileOf(index) ELSE progressFile
        /\ lastSave' = IF ok THEN index ELSE -1
        /\ ioFault' = (fault \/ ~ok)

ResetBatchData ==
    /\ j' = 1 /\ attempt' = 1 /\ batchResults' = <<>> /\ handleItems' = <<>>
    /\ attempts' = 0 /\ finalJSON' = NullJSON /\ profileDataArray' = <<>>
    /\ k' = 1
ResetBatchLocals ==
    /\ ResetBatchData
    /\ delay' = 0

\* processBatch(batches[b], b) up to its first await: the request of the
\* first record's fetchWithRetry is sent.
BeginBatch(b, st, fault) ==
    /\ i' = b
    /\ started' = st + 1
    /\ ResetBatchLocals
    /\ pc' = "fetch"
    /\ exitCode' = -1
    /\ ioFault' = fault
    /\ UNCHANGED <<progressFile, outputs, lastSave, writes>>

\* Lines 660-706: the batch loop ended with isProcessing true.  The
\* checkpoint is saved, then output/batch<n>_output.json is written (line
\* 686) and after it output/batch<n>.json (line 693); a failing write (or
\* mkdir) throws to the top level, which exits with code 1, the files
\* written before it staying on disk.
Complete(s, e, cr, fault) ==
    LET batchNumber == (s \div RECORDS_PER_RUN) + 1
    IN  /\ \E ok \in WriteOutcomes :
              /\ progressFile' = IF ok THEN ProgressFileOf(e) ELSE progressFile
              /\ lastSave' = IF ok THEN e ELSE -1
              /\ \E written \in WriteOutcomes :
                    /\ outputs' = IF written
                                  THEN [outputs EXCEPT ![batchNumber] =
                                          OutputOf(cr, "complete")]
                                  ELSE outputs
                    /\ writes' = IF written
                                 THEN [writes EXCEPT ![batchNumber] = @ + 1]
                                 ELSE writes
                    /\ \E summary \in WriteOutcomes :
                          /\ exitCode' = IF written /\ summary THEN 0 ELSE 1
                          /\ ioFault' = (fault \/ ~ok \/ ~written \/ ~summary)
        /\ pc' = "exited"
        /\ i' = NumBatches(s, e)
        /\ ResetBatchLocals

\* The loop is left with isProcessing false: processFounders returns
\* undefined; the process lives on until handleShutdown exits it.
Returned(b) ==
    /\ pc' = "returned"
    /\ i' = b
    /\ exitCode' = -1
    /\ ResetBatchLocals

\* A loop head without the test of the flag.
LoopNeverBreaks(proc) == FALSE
\* Line 642: the loop is left before batch b.
LoopBreaks(proc) == ~proc

\* A completion path that does not test the flag.
CompletesRunAlways(proc) == TRUE
\* Line 660: the completion path is taken.
CompletesRun(proc) == proc

\* A checkpoint that counts the batch about to start as done.
InterruptIndexNext(s, b) == s + (b + 1) * BATCH_SIZE
\* Line 644: the checkpoint saved when the loop is left before batch b.
InterruptIndex(s, b) == s + b * BATCH_SIZE

\* Lines 641-649 and 660: the head of the batch loop with index b.
LoopHead(s, e, b, proc, cr, st, fault) ==
    IF b < NumBatches(s, e)
    THEN IF LoopBreaks(proc)
         THEN /\ SaveProgress(InterruptIndex(s, b), fault)
              /\ Returned(b)
              /\ UNCHANGED <<outputs, writes>>
              /\ started' = st
         ELSE BeginBatch(b, st, fault)
    ELSE /\ started' = st
         /\ IF CompletesRun(proc)
            THEN Complete(s, e, cr, fault)
            ELSE /\ Returned(b)
                 /\ ioFault' = fault
                 /\ UNCHANGED <<progressFile, outputs, lastSave, writes>>

\* An accumulator that takes the batch's results at its front.
UnshiftAll(cr, results) == results \o cr
\* Line 650: global.currentResults.push(...batchResults)
PushAll(cr, results) == cr \o results

\* A pause between batches of initialDelay only.
batchDelayShort == initialDelay
\* Line 654: the pause between two batches.
batchDelay == initialDelay * 2

\* Lines 649-657: processBatch returned results.
ReturnBatch(results) ==
    LET cr == PushAll(currentResults, results)
    IN  /\ currentResults' = cr
        /\ appended' = appended + 1
        /\ IF i < NumBatches(startIndex, endIndex) - 1 /\ isProcessing
           THEN /\ pc' = "interDelay"
                /\ ResetBatchData
                /\ delay' = batchDelay
                /\ UNCHANGED <<i, progressFile, outputs, writes, exitCode,
                               started,
                               ioFault, lastSave>>
           ELSE LoopHead(startIndex, endIndex, i + 1, isProcessing, cr,
                         started, ioFault)

(***************************************************************************)
(* Actions.                                                                *)
(***************************************************************************)
\* An endIndex without the window of RECORDS_PER_RUN records.
EndIndexUnwindowed(s, n) == n
\* A wrap-around test that misses the cursor at the very end.
AllProcessedStrict(s, n) == s > n

\* Line 605: endIndex
EndIndexOf(s, n) == Min(s + RECORDS_PER_RUN, n)
\* Line 609: the cursor has reached the end of the input.
AllProcessed(s, n) == s >= n

\* `node processFounders.js`: module load, then processFounders() up to its
\* first await.
StartRun ==
    /\ pc \in {"none", "exited"}
    /\ pid < (IF chaos THEN MaxChaosRuns ELSE MaxRuns)
    /\ pid' = pid + 1
    /\ isProcessing' = TRUE
    /\ sig' = "none"
    /\ currentResults' = <<>>
    /\ appended' = 0
    /\ sigBatch' = -1
    /\ lastCall' = NoCall
    /\ UNCHANGED <<numRecords, chaos, env, signals>>
    /\ \E csvOk \in IF chaos THEN BOOLEAN ELSE {TRUE} :
          IF ~CredentialsOk(env.username, env.password) \/ ~csvOk
          THEN \* process.exit(1) at line 12 or 56, or readCSV throws
               /\ pc' = "exited"
               /\ exitCode' = 1
               /\ startIndex' = 0 /\ endIndex' = 0 /\ i' = 0
               /\ started' = 0
               /\ ioFault' = FALSE
               /\ ResetBatchLocals
               /\ UNCHANGED <<progressFile, outputs, lastSave, writes>>
          ELSE LET s == loadProgress(progressFile)
                   e == EndIndexOf(s, numRecords)
               IN  /\ startIndex' = s
                   /\ endIndex' = e
                   /\ IF AllProcessed(s, numRecords)
                      THEN /\ SaveProgress(0, FALSE)
                           /\ pc' = "exited"
                           /\ exitCode' = 0
                           /\ i' = 0
                           /\ started' = 0
                           /\ ResetBatchLocals
                           /\ writes' = NoWrites
                           /\ UNCHANGED outputs
                      ELSE LoopHead(s, e, 0, TRUE, <<>>, 0, FALSE)

FetchResponses == IF chaos THEN AllFetchResponses ELSE {NominalFetch}
PollResponses == IF chaos THEN AllPollResponses ELSE {NominalPoll}
\* The outcome of the trigger request: the request rejects ("rejected"), it
\* resolves with the body null ("nullbody": reading snapshot_id at line 226
\* throws), or it resolves with an object ("accepted").
AllTriggerResponses == {"accepted", "rejected", "nullbody"}
TriggerResponses == IF chaos THEN AllTriggerResponses ELSE {"accepted"}
ClassifierResponses == IF chaos THEN AllClassifierResponses ELSE {"verdict"}

\* The request of fetchWithRetry(url, attempt) for record j of the batch
\* settles; the rest of the first loop's iteration follows when the call
\* returns.
FetchRespond ==
    /\ pc = "fetch"
    /\ \E response \in FetchResponses :
        IF AttemptFails(response) /\ ~RetriesExhausted(attempt)
        THEN /\ pc' = "backoff"
             /\ delay' = BackoffDelay(attempt)
             /\ lastCall' = NoCall
             /\ UNCHANGED <<fsVars, pid, exitCode, isProcessing, sig,
                            currentResults, startIndex, endIndex, i,
                            j, attempt, batchResults, handleItems, attempts,
                            finalJSON, profileDataArray, k, histKeep>>
        ELSE LET searchData == IF AttemptFails(response) THEN NullData
                               ELSE AttemptValue(response)
                 step == FirstLoopBody(ItemIdx(startIndex, i, j), searchData)
                 results == IF step.push
                            THEN Append(batchResults, step.record)
                            ELSE batchResults
                 items == IF step.pend THEN Append(handleItems, step.item)
                          ELSE handleItems
                 outcome == IF AttemptFails(response) THEN "null"
                            ELSE response.kind
             IN  /\ lastCall' = FetchReturned(outcome, attempt,
                                               searchData.organic)
                 /\ UNCHANGED <<numRecords, chaos, env, pid, isProcessing, sig,
                                startIndex, endIndex, sigBatch, signals>>
                 /\ IF j < BatchLen(startIndex, endIndex, i)
                    THEN /\ j' = j + 1
                         /\ attempt' = 1
                         /\ delay' = 0
                         /\ batchResults' = results
                         /\ handleItems' = items
                         /\ UNCHANGED <<pc, progressFile, outputs, writes,
                                        exitCode,
                                        currentResults, i, attempts, finalJSON,
                                        profileDataArray, k, started, appended,
                                        ioFault, lastSave>>
                    ELSE IF Len(items) > 0
                    THEN /\ pc' = "preDelay"
                         /\ delay' = handlesDelay
                         /\ batchResults' = results
                         /\ handleItems' = items
                         /\ UNCHANGED <<progressFile, outputs, writes, exitCode,
                                        currentResults, i, j, attempt,
                                        attempts,
                                        finalJSON, profileDataArray, k, started,
                                        appended, ioFault, lastSave>>
                    ELSE ReturnBatch(results)

\* The backoff timer of fetchWithRetry fires: the next attempt's request.
BackoffDone ==
    /\ pc = "backoff"
    /\ pc' = "fetch"
    /\ attempt' = attempt + 1
    /\ delay' = 0
    /\ lastCall' = NoCall
    /\ UNCHANGED <<fsVars, pid, exitCode, isProcessing, sig, currentResults,
                   startIndex, endIndex, i, j, batchResults, handleItems,
                   attempts, finalJSON, profileDataArray, k, histKeep>>

\* The 2 s timer of line 427 fires: getProfileDescription posts the trigger.
PreDelayDone ==
    /\ pc = "preDelay"
    /\ pc' = "trigger"
    /\ delay' = 0
    /\ lastCall' = NoCall
    /\ UNCHANGED <<fsVars, pid, exitCode, isProcessing, sig, currentResults,
                   startIndex, endIndex, i, j, attempt, batchResults,
                   handleItems, attempts, finalJSON, profileDataArray, k,
                   histKeep>>

\* The pending handles from the last to the first.
HandlesReversed ==
    [p \in 1..Len(handleItems) |->
        handleItems[Len(handleItems) + 1 - p].handle]
\* Line 424: handleItems.map(item => item.handle)
Handles == [p \in 1..Len(handleItems) |-> handleItems[p].handle]

\* getProfileDescription returned profiles: the second loop of processBatch
\* sends the classifier request of its first item.
BeginSecondLoop(profiles, value, json) ==
    /\ profileDataArray' = profiles
    /\ k' = 1
    /\ pc' = "classify"
    /\ lastCall' = ProfilesReturned(value, json, attempts)
    /\ delay' = 0
    /\ attempts' = 0
    /\ finalJSON' = NullJSON

\* The trigger request settles.
TriggerRespond ==
    /\ pc = "trigger"
    /\ \E response \in TriggerResponses :
        IF response = "accepted"
        THEN /\ attempts' = 1
             /\ pc' = "pollSleep"
             /\ delay' = pollDelay
             /\ lastCall' = NoCall
             /\ UNCHANGED <<profileDataArray, k, finalJSON>>
        ELSE LET message == IF response = "rejected" THEN "Request failed"
                            ELSE "Cannot read properties of null"
             IN  BeginSecondLoop(ApiErrorProfiles(Handles, message),
                                 "apierror", finalJSON)
    /\ UNCHANGED <<fsVars, pid, exitCode, isProcessing, sig, currentResults,
                   startIndex, endIndex, i, j, attempt, batchResults,
                   handleItems, histKeep>>

\* sleep(5000) of line 236 ends: the snapshot request is sent.
PollSleepDone ==
    /\ pc = "pollSleep"
    /\ pc' = "poll"
    /\ delay' = 0
    /\ lastCall' = NoCall
    /\ UNCHANGED <<fsVars, pid, exitCode, isProcessing, sig, currentResults,
                   startIndex, endIndex, i, j, attempt, batchResults,
                   handleItems, attempts, finalJSON, profileDataArray, k,
                   histKeep>>

\* A polling loop that tests the attempt budget only.
KeepPollingAnyway(json, n) == n < maxAttempts
\* Line 234: the polling loop goes on.
KeepPolling(json, n) == json.kind \in {"null", "running"} /\ n < maxAttempts

\* A catch that rethrows whatever the attempt.
PollErrorAlwaysFatal(n) == TRUE
\* Line 257: the error of poll n is rethrown.
PollErrorFatal(n) == n >= maxAttempts

\* The snapshot request settles.
PollRespond ==
    /\ pc = "poll"
    /\ \E response \in PollResponses :
        LET threw == response.kind \in {"error", "null"}
            json == IF response.kind = "error" THEN finalJSON
                    ELSE IF response.kind = "null" THEN NullJSON
                    ELSE response
            message == IF response.kind = "error" THEN "Request failed"
                       ELSE "Cannot read properties of null"
        IN  IF threw /\ PollErrorFatal(attempts)
            THEN BeginSecondLoop(ApiErrorProfiles(Handles, message),
                                 "apierror", json)
            ELSE IF KeepPolling(json, attempts)
            THEN /\ attempts' = attempts + 1
                 /\ finalJSON' = json
                 /\ pc' = "pollSleep"
                 /\ delay' = pollDelay
                 /\ lastCall' = PollSettled(IF threw THEN "caught"
                                            ELSE "running")
                 /\ UNCHANGED <<profileDataArray, k>>
            ELSE IF json.kind \in {"null", "running", "empty"}
            THEN BeginSecondLoop(ApiErrorProfiles(Handles,
                     "Failed to get profile data after maximum attempts"),
                     "apierror", json)
            ELSE IF ForEachThrows(json)
            THEN BeginSecondLoop(ApiErrorProfiles(Handles,
                     ForEachMessage(json)),
                     "apierror", json)
            ELSE BeginSecondLoop(MapProfiles(Handles, json), "mapped", json)
    /\ UNCHANGED <<fsVars, pid, exitCode, isProcessing, sig, currentResults,
                   startIndex, endIndex, i, j, attempt, batchResults,
                   handleItems, histKeep>>

\* The classifier request of pending item k settles.
ClassifyRespond ==
    /\ pc = "classify"
    /\ \E response \in ClassifierResponses :
        LET analysis == IF response = "verdict" THEN Verdict ELSE NoVerdict
            resultEntry == ProcessedRecord(handleItems[k], profileDataArray[k],
                                           analysis)
            results == Append(batchResults, resultEntry)
        IN  /\ lastCall' = AnalysisReturned(response)
            /\ UNCHANGED <<numRecords, chaos, env, pid, isProcessing, sig,
                           startIndex, endIndex, sigBatch, signals>>
            /\ IF k < Len(handleItems)
               THEN /\ k' = k + 1
                    /\ batchResults' = results
                    /\ UNCHANGED <<pc, progressFile, outputs, writes, exitCode,
                                   currentResults, i, j, attempt, delay,
                                   handleItems,
                                   attempts, finalJSON, profileDataArray,
                                   started, appended, ioFault, lastSave>>
               ELSE ReturnBatch(results)

\* The timer between two batches (line 656) fires.
InterDelayDone ==
    /\ pc = "interDelay"
    /\ LoopHead(startIndex, endIndex, i + 1, isProcessing, currentResults,
                started, ioFault)
    /\ lastCall' = NoCall
    /\ UNCHANGED <<numRecords, chaos, env, pid, isProcessing, sig,
                   currentResults,
                   startIndex, endIndex, appended, sigBatch, signals>>

\* Where the main flow can be suspended while the process runs.
AwaitStates == {"fetch", "backoff", "preDelay", "trigger", "pollSleep",
                "poll", "classify", "interDelay"}

\* A handler that discards the accumulator when the signal arrives.
SignalDropsResults ==
    /\ pc \in AwaitStates
    /\ sig = "none"
    /\ signals < MaxSignals
    /\ isProcessing' = FALSE
    /\ sig' = "grace"
    /\ signals' = signals + 1
    /\ sigBatch' = IF pc = "interDelay" THEN -1 ELSE i
    /\ lastCall' = NoCall
    /\ currentResults' = <<>>
    /\ UNCHANGED <<fsVars, pid, pc, exitCode, startIndex,
                   endIndex, i, batchVars, started, appended, ioFault,
                   lastSave, writes>>

\* SIGINT or SIGTERM: handleShutdown up to its await (lines 503-509).  A
\* further signal during the grace period sets the flag again and starts a
\* later timer, which the first timer's process.exit precedes: it changes
\* nothing and is left out.
Signal ==
    /\ pc \in AwaitStates
    /\ sig = "none"
    /\ signals < MaxSignals
    /\ isProcessing' = FALSE
    /\ sig' = "grace"
    /\ signals' = signals + 1
    /\ sigBatch' = IF pc = "interDelay" THEN -1 ELSE i
    /\ lastCall' = NoCall
    /\ UNCHANGED <<fsVars, pid, pc, exitCode, currentResults, startIndex,
                   endIndex, i, batchVars, started, appended, ioFault,
                   lastSave, writes>>

\* A flush that does not test the accumulator.
HasPartialResultsAlways(cr) == TRUE
\* Line 512: there are partial results to save.
HasPartialResults(cr) == Len(cr) > 0

\* The grace timer of handleShutdown fires (lines 511-530).  A failing write
\* rejects handleShutdown's promise, which ends the process with code 1.
GraceExpire ==
    /\ sig = "grace"
    /\ pc \in AwaitStates \cup {"returned"}
    /\ pc' = "exited"
    /\ IF HasPartialResults(currentResults)
       THEN \E written \in WriteOutcomes :
               /\ outputs' = IF written
                             THEN [outputs EXCEPT ![PartialPath] =
                                     OutputOf(currentResults,
                                              "partial_results")]
                             ELSE outputs
               /\ writes' = IF written
                            THEN [writes EXCEPT ![PartialPath] = @ + 1]
                            ELSE writes
               /\ exitCode' = IF written THEN 0 ELSE 1
               /\ ioFault' = (ioFault \/ ~written)
       ELSE /\ exitCode' = 0
            /\ UNCHANGED <<outputs, writes, ioFault>>
    /\ UNCHANGED lastSave
    /\ lastCall' = NoCall
    /\ UNCHANGED <<numRecords, chaos, env, progressFile, pid, isProcessing, sig,
                   currentResults, startIndex, endIndex, i, batchVars,
                   started, appended, sigBatch, signals>>

Next ==
    \/ StartRun
    \/ FetchRespond
    \/ BackoffDone
    \/ PreDelayDone
    \/ TriggerRespond
    \/ PollSleepDone
    \/ PollRespond
    \/ ClassifyRespond
    \/ InterDelayDone
    \/ Signal
    \/ GraceExpire

Spec == Init /\ [][Next]_vars

(***************************************************************************)
(* Properties.                                                             *)
(***************************************************************************)
\* The part of currentResults that the b-th call of processBatch returned,
\* if every call returns one record per item of its batch.
BatchFirst(b) == b * BATCH_SIZE + 1
BatchLast(b) == b * BATCH_SIZE + BatchLen(startIndex, endIndex, b)
\* The batch (from 0) that position q of currentResults belongs to.
BatchAt(q) == (q - 1) \div BATCH_SIZE

\* C1: whatever the search, snapshot and classifier requests answer, the list
\* a call of processBatch returns holds exactly one ResultRecord for each
\* InputRecord of its batch: the accumulator grows by the batch's length with
\* every call that returned, and each record of the batch has exactly one
\* result among the records that call contributed.
C1_OneResultPerRecord ==
    /\ Len(currentResults) =
           Min(appended * BATCH_SIZE, endIndex - startIndex)
    /\ \A b \in 0..(appended - 1) :
           \A p \in 1..BatchLen(startIndex, endIndex, b) :
               Cardinality({q \in BatchFirst(b)..BatchLast(b) :
                   currentResults[q].idx = ItemIdx(startIndex, b, p)}) = 1

\* A batch returned in which one record failed in the first loop with a
\* profile link that has no handle and another went through handle
\* resolution.
C1_Witness ==
    /\ appended >= 1
    /\ \E p, q \in 1..Len(currentResults) :
           /\ currentResults[p].reason = "Could not extract Twitter handle"
           /\ currentResults[q].status = "processed"

\* C2 (as claimed): when the process exits after a termination signal, the
\* checkpoint file holds startIndex + 5 * k for the k batches whose results
\* were appended to the accumulator, and the accumulator holds as many
\* records as the checkpoint advanced.
C2_CheckpointAtInterrupt ==
    (pc = "exited" /\ sig = "grace" /\ ~ioFault) =>
        /\ loadProgress(progressFile) = startIndex + BATCH_SIZE * appended
        /\ Len(currentResults) = loadProgress(progressFile) - startIndex

\* C3 (as claimed): the records of the accumulator are in the order of their
\* InputRecords.
C3_InputOrder ==
    \A p, q \in 1..Len(currentResults) :
        p < q => currentResults[p].idx < currentResults[q].idx

\* C3 (amended): batches are appended in input order; inside a batch the
\* records that ended in the first loop come first, in input order, and the
\* records that went through handle resolution follow, in input order.
C3_OrderedByPhase ==
    \A p, q \in 1..Len(currentResults) :
        p < q =>
            \/ currentResults[p].idx < currentResults[q].idx
            \/ /\ BatchAt(p) = BatchAt(q)
               /\ currentResults[p].status # "processed"
               /\ currentResults[q].status = "processed"

\* A record that failed in the first loop stands before the processed
\* record of an earlier row.
C3_Witness ==
    \E p, q \in 1..Len(currentResults) :
        /\ p < q
        /\ currentResults[p].idx > currentResults[q].idx
        /\ currentResults[p].status = "failed"
        /\ currentResults[q].status = "processed"

\* The biography of the last snapshot row for handle h, if there is one.
HasRow(json, h) ==
    json.kind = "array" /\ \E r \in 1..Len(json.rows) : json.rows[r].handle = h
LastRow(json, h) ==
    LET r == CHOOSE r \in 1..Len(json.rows) :
                 /\ json.rows[r].handle = h
                 /\ \A t \in (r + 1)..Len(json.rows) : json.rows[t].handle # h
    IN  json.rows[r]

\* C4 (as claimed): when getProfileDescription returns from a terminal
\* snapshot response, its list has the length of handles, and entry p is the
\* success entry with the biography of handle p's snapshot row when the
\* snapshot has one, and the not-found entry when it has none.
C4_ProfilePerHandle ==
    (lastCall.fn = "getProfileDescription" /\ lastCall.value = "mapped") =>
        /\ Len(profileDataArray) = Len(handleItems)
        /\ \A p \in 1..Len(handleItems) :
               profileDataArray[p] =
                   IF HasRow(lastCall.json, handleItems[p].handle)
                   THEN SuccessEntry(
                            LastRow(lastCall.json,
                                    handleItems[p].handle).biography)
                   ELSE NotFoundEntry

\* C5: fetchWithRetry sends at most maxRetries requests per call and waits
\* for a retry only while attempts are left; it returns with the payload of
\* the first attempt that succeeds, and returns null only when the fifth
\* attempt has failed.  It has no throwing path: every step of a call leads
\* to a retry or to a returned value.
C5_AtMostFiveAttempts ==
    /\ pc \in {"fetch", "backoff"} => attempt \in 1..maxRetries
    /\ pc = "backoff" => attempt < maxRetries
    /\ lastCall.fn = "fetchWithRetry" =>
           /\ lastCall.attempts \in 1..maxRetries
           /\ lastCall.value = "null" => lastCall.attempts = maxRetries

\* A call returned null from its fifth attempt.
C5_Witness ==
    /\ lastCall.fn = "fetchWithRetry"
    /\ lastCall.attempts = maxRetries
    /\ lastCall.value = "null"

\* C6: once a termination signal has set isProcessing to false, the process
\* begins no further call of processBatch.
C6_NoBatchAfterFlag ==
    [][(~isProcessing /\ pid' = pid) => started' = started]_vars

\* The batch loop was left at line 642 with batches still to process.
C6_Witness ==
    /\ pc = "returned"
    /\ ~isProcessing
    /\ i < NumBatches(startIndex, endIndex)
    /\ started = i

\* C7 (as claimed): a batch in flight when the termination signal arrives
\* runs to completion before the process exits: its results are in the
\* accumulator and in the flushed output/output.json.
C7_InFlightBatchCompletes ==
    (pc = "exited" /\ sig = "grace" /\ sigBatch >= 0 /\ ~ioFault) =>
        /\ appended > sigBatch
        /\ outputs[PartialPath] = OutputOf(currentResults, "partial_results")
        /\ Len(currentResults) >= BatchLast(sigBatch)

\* C8: a run that starts at checkpoint s < N and receives no termination
\* signal ends with the checkpoint at min(s + 100, N) and with the results
\* output of its window holding min(100, N - s) records, as many as the
\* checkpoint advanced (file writes succeeding).
C8_WindowedRun ==
    (pc = "exited" /\ sig = "none" /\ started > 0 /\ ~ioFault) =>
        LET out == outputs[(startIndex \div RECORDS_PER_RUN) + 1]
        IN  /\ exitCode = 0
            /\ loadProgress(progressFile) =
                   Min(startIndex + RECORDS_PER_RUN, numRecords)
            /\ out.status = "complete"
            /\ Len(out.ids) = Min(RECORDS_PER_RUN, numRecords - startIndex)
            /\ Len(out.ids) = loadProgress(progressFile) - startIndex

\* A run over an input longer than the window ended at the window's end, and
\* the next run ended at the end of the input.
C8_Witness ==
    /\ pc = "exited" /\ sig = "none" /\ started > 0
    /\ numRecords > RECORDS_PER_RUN
    /\ startIndex = RECORDS_PER_RUN
    /\ loadProgress(progressFile) = numRecords
    /\ Len(outputs[1].ids) = RECORDS_PER_RUN
    /\ Len(outputs[2].ids) = numRecords - RECORDS_PER_RUN

\* C9: a run that finds the checkpoint at or beyond the number of input
\* records writes checkpoint 0 and ends without a call of processBatch, a
\* request or a write to an output file; the run after it starts from
\* record 0.
C9_WrapAround ==
    [][(pid' = pid + 1 /\ exitCode' # 1) =>
          /\ loadProgress(progressFile) >= numRecords =>
                 /\ pc' = "exited"
                 /\ started' = 0
                 /\ currentResults' = <<>>
                 /\ outputs' = outputs
                 /\ ~ioFault' => loadProgress(progressFile') = 0
          /\ (pc = "exited" /\ exitCode = 0 /\ started = 0 /\ ~ioFault) =>
                 startIndex' = 0]_vars

\* The run after a wrap-around run processes the first batch of the input
\* again.
C9_Witness ==
    /\ pid = 3
    /\ numRecords > 0
    /\ progressFile = ProgressFileOf(0)
    /\ startIndex = 0
    /\ pc = "fetch"

\* C10: after saveProgress(index), loadProgress() returns index, in the
\* process that saved and in the process started next; while progress.json is
\* missing or unreadable, loadProgress() returns 0.
C10_CheckpointRoundTrip ==
    /\ lastSave # -1 => loadProgress(progressFile) = lastSave
    /\ (progressFile \in {Missing, Corrupt} /\ pid >= 1) => startIndex = 0
    /\ (pc \in AwaitStates /\ lastSave # -1) => startIndex = lastSave

\* A run started from the three-digit checkpoint the run before it saved.
C10_Witness ==
    /\ pid = 2
    /\ lastSave = RECORDS_PER_RUN
    /\ startIndex = RECORDS_PER_RUN
    /\ pc = "fetch"

\* The reasons of the entries the catch of getProfileDescription builds.
ApiErrorReasons ==
    {"API Error: Request failed", "API Error: Cannot read properties of null",
     "API Error: url.match is not a function",
     "API Error: Failed to get profile data after maximum attempts"}
IsSynthesizedError(entry) ==
    /\ entry.status = "error"
    /\ entry.canDm = "true"
    /\ entry.description = ""
    /\ entry.reason \in ApiErrorReasons

\* C11: getProfileDescription never throws to processBatch: every call
\* returns a list with one entry per handle, and when the trigger request
\* failed, the job was still running (or had never answered) when the
\* attempt budget was spent, or the last poll failed, every entry is a
\* synthesized error ProfileData.
C11_PollerNeverThrows ==
    /\ pc = "classify" => Len(profileDataArray) = Len(handleItems)
    /\ lastCall.fn = "getProfileDescription" =>
           /\ Len(profileDataArray) = Len(handleItems)
           /\ lastCall.value \in {"apierror", "mapped"}
           /\ lastCall.json.kind \in {"null", "running"} =>
                  lastCall.value = "apierror"
           /\ lastCall.value = "apierror" =>
                  \A p \in 1..Len(profileDataArray) :
                      IsSynthesizedError(profileDataArray[p])

\* The job was still running when the budget of polls was spent, and two
\* handles were asked for.
C11_Witness ==
    /\ lastCall.fn = "getProfileDescription"
    /\ lastCall.value = "apierror"
    /\ lastCall.json.kind = "running"
    /\ Len(handleItems) = 2
    /\ profileDataArray[2].reason =
           "API Error: Failed to get profile data after maximum attempts"

\* C12: a call of getProfileDescription sends at most maxAttempts snapshot
\* polls, each of them after a sleep of 5 s, and sends no poll once a poll
\* has returned a terminal response (one that is neither null nor running).
C12_BoundedPolling ==
    /\ [](pc \in {"pollSleep", "poll"} =>
             /\ attempts \in 1..maxAttempts
             /\ finalJSON.kind \in {"null", "running"})
    /\ [][(pc' = "poll" /\ pc # "poll") => pc = "pollSleep"]_vars
    /\ [][(pc = "poll" /\ pc' = "pollSleep") => attempts' = attempts + 1]_vars

\* The tenth poll of a call is in flight, the ninth having answered that
\* the job is running.
C12_Witness ==
    /\ pc = "poll"
    /\ attempts = maxAttempts
    /\ finalJSON.kind = "running"

\* C13: on a termination signal handleShutdown sets isProcessing to false
\* and waits; when its 2 s timer fires it writes the accumulated records to
\* output/output.json with status 'partial_results' if and only if the
\* accumulator is not empty, touches no other output file, and exits with
\* code 0 (code 1 only if the write itself fails).
C13_GracefulShutdown ==
    /\ [](sig = "grace" => ~isProcessing)
    /\ [][(sig = "none" /\ sig' = "grace") =>
             /\ ~isProcessing'
             /\ pc' = pc /\ pc' # "exited"
             /\ outputs' = outputs]_vars
    /\ [][(sig = "grace" /\ pc # "exited" /\ pc' = "exited") =>
             /\ exitCode' \in {0, 1}
             /\ ~chaos => exitCode' = 0
             /\ \A path \in OutPaths \ {PartialPath} :
                    outputs'[path] = outputs[path]
             /\ exitCode' = 0 =>
                    IF Len(currentResults) > 0
                    THEN outputs'[PartialPath] =
                             OutputOf(currentResults, "partial_results")
                    ELSE outputs'[PartialPath] = outputs[PartialPath]]_vars

\* The process exited with code 0 after a signal and left its three
\* accumulated records in output/output.json.
C13_Witness ==
    /\ pc = "exited" /\ sig = "grace" /\ exitCode = 0
    /\ Len(currentResults) = 3
    /\ outputs[PartialPath] = OutputOf(currentResults, "partial_results")

\* The rows of the window of the run.
WindowRows(s, e) == s..(e - 1)

\* C14: a file with status 'complete' is written only by a process that has
\* seen no termination signal when its batch loop ends, to the path of its
\* window, and holds one record for every row of the window; what a process
\* writes after a signal goes to output/output.json with status
\* 'partial_results'.
C14_CompleteOnlyUnsignalled ==
    /\ [](outputs[PartialPath].status \in {"nofile", "partial_results"})
    /\ [][\A path \in OutPaths \ {PartialPath} :
             outputs'[path] # outputs[path] =>
                 /\ sig' = "none" /\ isProcessing'
                 /\ path = (startIndex' \div RECORDS_PER_RUN) + 1
                 /\ outputs'[path].status = "complete"
                 /\ Len(outputs'[path].ids) = endIndex' - startIndex'
                 /\ {outputs'[path].ids[q] :
                        q \in 1..Len(outputs'[path].ids)} =
                    WindowRows(startIndex', endIndex')]_vars
    /\ [][(sig' = "grace" /\ outputs' # outputs) =>
             outputs'[PartialPath].status = "partial_results"]_vars

\* The first run completed its window; the second was interrupted in its
\* only batch and left partial results, and no complete file for its
\* window.
C14_Witness ==
    /\ pc = "exited" /\ sig = "grace"
    /\ startIndex = RECORDS_PER_RUN
    /\ outputs[1].status = "complete"
    /\ outputs[2] = NoFile
    /\ outputs[PartialPath].status = "partial_results"
    /\ Len(outputs[PartialPath].ids) = numRecords - RECORDS_PER_RUN

\* The record processBatch pushed last: the last of batchResults while the
\* batch goes on, the last of the accumulator once the batch has returned.
LastPushed ==
    IF batchResults # <<>> THEN batchResults[Len(batchResults)]
    ELSE currentResults[Len(currentResults)]

\* C15 (as claimed): a record whose search answers with the zero-results
\* marker gets the ResultRecord {status: 'failed', reason: 'No search
\* results found'}.
C15_ZeroResultsNoSearchResults ==
    (lastCall.fn = "fetchWithRetry" /\ lastCall.value = "zero") =>
        /\ LastPushed.status = "failed"
        /\ LastPushed.reason = "No search results found"

\* C15 (amended): a record whose search answers with the zero-results marker
\* gets {status: 'failed', reason: 'No Twitter profile found'}; the reason
\* 'No search results found' is that of a record whose search returned null,
\* all attempts having failed.
C15_ZeroResultsNoProfile ==
    lastCall.fn = "fetchWithRetry" =>
        /\ lastCall.value = "zero" =>
               /\ LastPushed.status = "failed"
               /\ LastPushed.reason = "No Twitter profile found"
        /\ lastCall.value = "null" =>
               /\ LastPushed.status = "failed"
               /\ LastPushed.reason = "No search results found"

\* The search of the second record of a batch answered with the
\* zero-results marker.
C15_Witness ==
    /\ lastCall.fn = "fetchWithRetry" /\ lastCall.value = "zero"
    /\ LastPushed.idx = 1
    /\ LastPushed.reason = "No Twitter profile found"

\* C16: a record that reaches handle resolution gets a ResultRecord with
\* status 'processed' whatever the classifier request does: the record has
\* the verdict's role, rank and confidence_reason when the classifier
\* returned a verdict and none of them when the request or the parse failed;
\* the batch goes on either way.
C16_ProcessedWithOrWithoutVerdict ==
    /\ lastCall.fn = "analyzeFounderProfile" =>
           /\ LastPushed.status = "processed"
           /\ LastPushed.handle # NoHandle
           /\ lastCall.value = "verdict" => LastPushed.analysis = Verdict
           /\ lastCall.value = "failure" => LastPushed.analysis = NoVerdict
           /\ pc \in {"classify", "interDelay", "fetch", "returned", "exited"}
    /\ \A q \in 1..Len(currentResults) :
           /\ currentResults[q].handle # NoHandle <=>
                  currentResults[q].status = "processed"
           /\ currentResults[q].status # "processed" =>
                  currentResults[q].analysis = NoVerdict

\* A batch returned in which one record was classified and the classifier
\* request of the other failed.
C16_Witness ==
    /\ lastCall.fn = "analyzeFounderProfile" /\ lastCall.value = "failure"
    /\ Len(currentResults) = 2
    /\ currentResults[1].status = "processed"
    /\ currentResults[1].analysis = Verdict
    /\ currentResults[2].status = "processed"
    /\ currentResults[2].analysis = NoVerdict

\* The ids of the records of the accumulator.
AccumulatedIds == [q \in 1..Len(currentResults) |-> currentResults[q].idx]

\* C17 (as claimed): when an exception reaches the top level of a run and
\* the process exits with code 1, the records accumulated so far are in an
\* output file.
C17_FlushOnFatal ==
    (pc = "exited" /\ exitCode = 1 /\ sig = "none" /\ Len(currentResults) > 0)
        => \E path \in OutPaths : outputs[path].ids = AccumulatedIds

\* C18 (as claimed): between two wrap-arounds of the checkpoint no output
\* file is written twice: no run, completed or interrupted, writes its
\* results to a path an earlier run wrote.
C18_NoOverwrite ==
    \A path \in OutPaths : writes[path] <= 1

\* The variable is unset, or empty once quotes and whitespace are stripped.
MissingOrBlank(v) == v = Undefined \/ StripCredential(v) = ""

\* C19: when BRIGHT_USERNAME or BRIGHT_PASSWORD is missing, or empty once
\* quotes and surrounding whitespace are stripped, every process exits with
\* code 1 at module load: it reads no input record, sends no request and
\* writes neither the checkpoint nor an output file.
C19_NoCredentialsNoRun ==
    (pid >= 1 /\ (MissingOrBlank(env.username)
                    \/ MissingOrBlank(env.password))) =>
        /\ pc = "exited" /\ exitCode = 1
        /\ started = 0 /\ currentResults = <<>>
        /\ lastCall = NoCall
        /\ progressFile \in {Missing, Corrupt} /\ lastSave = -1
        /\ outputs = [path \in OutPaths |-> NoFile]
        /\ writes = NoWrites

\* A process was started with a user name made of quotes and a blank.
C19_Witness ==
    /\ pid = 1
    /\ env.username = "' '"
    /\ env.password = "user"
    /\ pc = "exited" /\ exitCode = 1

\* The waits of fetchWithRetry, by the attempt that failed.
ClaimedDelays == <<2000, 3000, 4500, 6750>>

\* C20: after failed attempt k, 1 <= k <= 4, fetchWithRetry waits
\* min(2000 * 1.5^(k-1), 30000) ms, that is 2000, 3000, 4500 and 6750 ms;
\* the waits increase strictly and stay below the cap of 30000 ms, and no
\* wait follows the failure of attempt 5.
C20_BackoffSchedule ==
    /\ pc = "backoff" =>
           /\ attempt \in 1..(maxRetries - 1)
           /\ delay = ClaimedDelays[attempt]
           /\ delay < maxDelay
           /\ attempt > 1 => delay > ClaimedDelays[attempt - 1]
    /\ pc = "fetch" => delay = 0
    /\ (lastCall.fn = "fetchWithRetry" /\ lastCall.value = "null") =>
           pc # "backoff"

\* The fetcher waits 6750 ms after its fourth failed attempt.
C20_Witness ==
    /\ pc = "backoff"
    /\ attempt = 4
    /\ delay = 6750

\* C21: the shutdown handler only sets isProcessing to false, waits, writes
\* output/output.json from the accumulator and exits: neither the arrival of
\* the signal nor the end of the grace period changes the accumulator or
\* progress.json, and of the output files only output/output.json is
\* written.  The accumulator changes only when the main flow appends a
\* batch's results or a new process starts with an empty one.
C21_ShutdownFrame ==
    [][ /\ (sig = "none" /\ sig' = "grace") =>
              /\ ~isProcessing'
              /\ currentResults' = currentResults
              /\ progressFile' = progressFile
              /\ lastSave' = lastSave
              /\ outputs' = outputs
              /\ pc' = pc
        /\ (sig = "grace" /\ pc # "exited" /\ pc' = "exited") =>
              /\ currentResults' = currentResults
              /\ progressFile' = progressFile
              /\ lastSave' = lastSave
              /\ \A path \in OutPaths \ {PartialPath} :
                     outputs'[path] = outputs[path]
              /\ outputs' # outputs =>
                     outputs'[PartialPath] =
                         OutputOf(currentResults, "partial_results")
        /\ currentResults' # currentResults =>
              \/ pid' = pid + 1 /\ currentResults' = <<>>
              \/ appended' = appended + 1
      ]_vars

\* A signal arrived during the first batch, the batch's five records were
\* appended afterwards and the handler flushed exactly those, leaving
\* progress.json absent.
C21_Witness ==
    /\ pc = "exited" /\ sig = "grace" /\ pid = 1
    /\ Len(currentResults) = 5
    /\ progressFile = Missing
    /\ outputs[PartialPath] = OutputOf(currentResults, "partial_results")

\* The records pushed so far by the running process, the current batch's
\* included.
AllResults == currentResults \o batchResults
\* Item p of an organic list is a canonical profile link: it contains
\* 'x.com', parses as a URL, and has one path segment and no query.
CanonicalAt(organic, p) ==
    IncludesXCom(organic[p]) /\ IsMainProfile(organic[p])
HasCanonical(organic) == \E p \in 1..Len(organic) : CanonicalAt(organic, p)
FirstCanonical(organic) ==
    organic[CHOOSE p \in 1..Len(organic) :
                /\ CanonicalAt(organic, p)
                /\ \A q \in 1..(p - 1) : ~CanonicalAt(organic, q)]

\* C22 as stated: when fetchWithRetry returns for a record of the batch,
\* the record becomes failed with 'No search results found' if the value is
\* null; otherwise failed with 'No Twitter profile found' if the results
\* hold no canonical profile link; otherwise failed with 'Could not extract
\* Twitter handle' if no handle can be read from the first such link;
\* otherwise it is put on the pending list with its handle and link and
\* gets no record yet.  No record on the pending list has a failed record,
\* and every pending item has a handle.
C22_RecordStateMachine ==
    /\ [](\A p \in 1..Len(handleItems) :
             /\ handleItems[p].handle # NoHandle
             /\ \A q \in 1..Len(AllResults) :
                    AllResults[q].idx = handleItems[p].idx =>
                        AllResults[q].status = "processed")
    /\ [][ lastCall'.fn = "fetchWithRetry" =>
           LET idx == ItemIdx(startIndex, i, j)
               organic == lastCall'.organic
               Fails(reason, url) ==
                   /\ AllResults' =
                          Append(AllResults, FailedRecord(idx, reason, url))
                   /\ handleItems' \in {handleItems, <<>>}
           IN  IF lastCall'.value = "null"
               THEN Fails("No search results found", UndefinedLink)
               ELSE IF ~HasCanonical(organic)
               THEN Fails("No Twitter profile found", UndefinedLink)
               ELSE IF extractHandle(FirstCanonical(organic)) = NoHandle
               THEN Fails("Could not extract Twitter handle",
                          FirstCanonical(organic))
               ELSE /\ AllResults' = AllResults
                    /\ handleItems' =
                         Append(handleItems,
                                HandleItem(idx,
                                    extractHandle(FirstCanonical(organic)),
                                    FirstCanonical(organic)))
         ]_vars

\* The items of a results list that cannot be read as {link: text or
\* nothing}, and the messages of the exceptions reading them raises.
Unreadable(item) == item.query \in {"nullitem", "number"}
UnreadableMessages ==
    {"data.organic.filter is not a function",
     "Cannot read properties of null (reading 'link')",
     "item.link.includes is not a function",
     "url.match is not a function"}

\* C22, amended: as stated, except that a record whose fetch returned
\* results that cannot be read (the list is no array, or one of its items
\* is null or has a link that is no text and has no includes method)
\* becomes error with the message of the exception, on whatever links the
\* list holds besides, and so does a record whose canonical profile link
\* is no text (an array); such a record is not put on the pending list
\* either.
C22_StateMachineWithError ==
    /\ [](\A p \in 1..Len(handleItems) :
             /\ handleItems[p].handle # NoHandle
             /\ \A q \in 1..Len(AllResults) :
                    AllResults[q].idx = handleItems[p].idx =>
                        AllResults[q].status = "processed")
    /\ [][ lastCall'.fn = "fetchWithRetry" =>
           LET idx == ItemIdx(startIndex, i, j)
               organic == lastCall'.organic
               Fails(reason, url) ==
                   /\ AllResults' =
                          Append(AllResults, FailedRecord(idx, reason, url))
                   /\ handleItems' \in {handleItems, <<>>}
           IN  IF lastCall'.value = "null"
               THEN Fails("No search results found", UndefinedLink)
               ELSE IF \/ lastCall'.value = "malformed"
                       \/ \E p \in 1..Len(organic) : Unreadable(organic[p])
               THEN /\ \E m \in UnreadableMessages :
                          AllResults' =
                              Append(AllResults, ErrorRecord(idx, m))
                    /\ handleItems' \in {handleItems, <<>>}
               ELSE IF ~HasCanonical(organic)
               THEN Fails("No Twitter profile found", UndefinedLink)
               ELSE IF FirstCanonical(organic).isArray
               THEN /\ AllResults' =
                          Append(AllResults,
                                 ErrorRecord(idx, "url.match is not a function"))
                    /\ handleItems' \in {handleItems, <<>>}
               ELSE IF extractHandle(FirstCanonical(organic)) = NoHandle
               THEN Fails("Could not extract Twitter handle",
                          FirstCanonical(organic))
               ELSE /\ AllResults' = AllResults
                    /\ handleItems' =
                         Append(handleItems,
                                HandleItem(idx,
                                    extractHandle(FirstCanonical(organic)),
                                    FirstCanonical(organic)))
         ]_vars

\* Of a batch of two records the first got a canonical link without a
\* handle and failed, the second is pending: the poller is about to be
\* called for the second alone.
C22_Witness ==
    /\ pc = "preDelay"
    /\ lastCall.fn = "fetchWithRetry"
    /\ Len(batchResults) = 1
    /\ batchResults[1] =
           FailedRecord(0, "Could not extract Twitter handle", LinkNoHandle)
    /\ Len(handleItems) = 1
    /\ handleItems[1] = HandleItem(1, "alice", LinkAlice)

\* C23 (as claimed): the checkpoint never advances past a record whose
\* ResultRecord is in no output file: when a process that saw no signal
\* fails to write its window's output and exits with code 1, progress.json
\* still holds the index the process started from.
C23_CheckpointBehindOutput ==
    (pc = "exited" /\ exitCode = 1 /\ sig = "none" /\ started > 0) =>
        loadProgress(progressFile) = startIndex

\* The states in which a call of getProfileDescription is pending or about
\* to be made.
PollerStates == {"preDelay", "trigger", "pollSleep", "poll"}

\* C24: in a batch getProfileDescription is called at most once: only when
\* every record of the batch has been through search and extraction (each is
\* failed, in error, or pending), only if at least one record is pending,
\* and only after the wait of 2 s; the list it returns has one defined entry
\* for each pending record, entry p being the lookup of pending record p's
\* handle, the pending records standing in input order; and the second loop
\* builds pending record p's ResultRecord from entry p.
C24_PollerOncePerBatch ==
    /\ [](pc \in PollerStates \cup {"classify"} =>
             /\ j = BatchLen(startIndex, endIndex, i)
             /\ Len(handleItems) >= 1
             /\ Len(batchResults) + Len(handleItems) - (k - 1) =
                    BatchLen(startIndex, endIndex, i)
             /\ \A p \in 1..Len(handleItems), q \in 1..Len(handleItems) :
                    p < q => handleItems[p].idx < handleItems[q].idx)
    /\ [](pc = "preDelay" => delay = 2000)
    /\ [](pc = "classify" =>
             /\ Len(profileDataArray) = Len(handleItems)
             /\ k \in 1..Len(handleItems))
    /\ [][(pc' = "trigger" /\ pc # "trigger") => pc = "preDelay"]_vars
    /\ [][(pc' = "preDelay" /\ pc # "preDelay") => pc = "fetch"]_vars
    /\ [][(pc \in PollerStates \cup {"classify"} /\ pc' = "fetch") =>
             started' = started + 1]_vars
    /\ [][pc = "classify" => pc' \notin PollerStates]_vars
    /\ [][(lastCall'.fn = "getProfileDescription"
             /\ lastCall'.value = "mapped") =>
             \A p \in 1..Len(handleItems) :
                 profileDataArray'[p] =
                     LookupProfile(
                         IF lastCall'.json.kind = "array"
                         THEN BuildProfileMap(lastCall'.json.rows, EmptyMap)
                         ELSE EmptyMap,
                         handleItems[p].handle)]_vars
    /\ [][lastCall'.fn = "analyzeFounderProfile" =>
             LET entry == AllResults'[Len(AllResults')]
             IN  /\ Len(AllResults') = Len(AllResults) + 1
                 /\ entry.idx = handleItems[k].idx
                 /\ entry.handle = handleItems[k].handle
                 /\ entry.description =
                        OrEmpty(profileDataArray[k].description)]_vars

\* Two records are pending; the snapshot has a row for the first only, and
\* the list returned pairs the row's biography with the first and the
\* not-found entry with the second.
C24_Witness ==
    /\ pc = "classify"
    /\ lastCall.fn = "getProfileDescription"
    /\ lastCall.value = "mapped"
    /\ Len(handleItems) = 2
    /\ handleItems[1].handle = "constructor"
    /\ handleItems[2].handle = "alice"
    /\ profileDataArray[1] = SuccessEntry("bio")
    /\ profileDataArray[2] = NotFoundEntry

\* A snapshot response that ends polling and from which no list can be
\* built: an empty body, or an array with a null row.
Unusable(json) ==
    \/ json.kind = "empty"
    \/ /\ json.kind = "array"
       /\ \E r \in 1..Len(json.rows) :
              json.rows[r].handle \in {NullRow, NoTextUrl}

\* C26 (as claimed): once polling has begun, getProfileDescription returns
\* the synthesized-error list only if its 10th poll failed or no terminal
\* response (one that is neither null nor running) was seen in 10 polls.
C26_FailsOnlyOnBudget ==
    (/\ lastCall.fn = "getProfileDescription"
     /\ lastCall.attempts >= 1
     /\ lastCall.value = "apierror") =>
        /\ lastCall.attempts = maxAttempts
        /\ lastCall.json.kind \in {"null", "running"}

\* C26 (amended): a poll that fails before the 10th is not fatal: the loop
\* sleeps and polls again.  Once polling has begun, the call returns its
\* mapped list exactly when a poll within the budget of 10 returned a
\* terminal response that is usable; it returns the synthesized-error list
\* exactly when the 10th poll failed, no terminal response was seen in 10
\* polls, or the terminal response is an empty body or has a null row or a
\* row whose url is no text.
C26_PollErrorsNotFatal ==
    /\ []((lastCall.fn = "getProfileDescription" /\ lastCall.attempts >= 1)
            =>
            /\ lastCall.attempts \in 1..maxAttempts
            /\ lastCall.json.kind \in {"null", "running"} =>
                   lastCall.attempts = maxAttempts
            /\ lastCall.value = "apierror" <=>
                   \/ lastCall.json.kind \in {"null", "running"}
                   \/ Unusable(lastCall.json))
    /\ []((lastCall.fn = "poll" /\ lastCall.value = "caught") =>
            /\ pc \in {"pollSleep", "exited"}
            /\ attempts \in 2..maxAttempts)
    /\ [][(pc = "poll" /\ attempts < maxAttempts /\ pc' = "classify") =>
            /\ lastCall'.json.kind \notin {"null", "running"}
            /\ lastCall'.attempts = attempts]_vars

\* The ninth poll failed: the loop sleeps before the tenth.
C26_Witness ==
    /\ pc = "pollSleep"
    /\ lastCall.fn = "poll" /\ lastCall.value = "caught"
    /\ attempts = maxAttempts

\* C27: when a batch that is not the last of the window has returned and no
\* shutdown has been signalled, the batch loop waits 4000 ms, twice the
\* initial delay of fetchWithRetry, and a later batch begins only when that
\* wait has ended; there is no wait after the last batch and none once
\* isProcessing is false.
C27_InterBatchDelay ==
    /\ [](pc = "interDelay" =>
             /\ delay = 4000
             /\ delay = 2 * initialDelay
             /\ i < NumBatches(startIndex, endIndex) - 1)
    /\ [][appended' = appended + 1 =>
             IF isProcessing /\ i < NumBatches(startIndex, endIndex) - 1
             THEN pc' = "interDelay" /\ delay' = 4000
             ELSE pc' \notin AwaitStates /\ delay' = 0]_vars
    /\ [][(started' = started + 1 /\ pid' = pid) =>
             /\ pc = "interDelay"
             /\ isProcessing
             /\ i' = i + 1]_vars

\* The first batch of a window of two batches has returned, no signal has
\* arrived, and the loop waits 4000 ms.
C27_Witness ==
    /\ pc = "interDelay"
    /\ isProcessing
    /\ delay = 4000
    /\ i = 0 /\ appended = 1
    /\ NumBatches(startIndex, endIndex) = 2

\* ceil(N / 100): the number of windows of the input.
NumWindows == (numRecords + RECORDS_PER_RUN - 1) \div RECORDS_PER_RUN
\* The rows of window r (from 1).
WindowOf(r) ==
    ((r - 1) * RECORDS_PER_RUN)..(Min(r * RECORDS_PER_RUN, numRecords) - 1)

\* C28: from checkpoint 0, with no termination signal and no failure, the
\* runs process the windows [0,100), [100,200), ... in turn: a run starts at
\* the index at which the run before it ended, run r of a cycle processes
\* window r, the run that reaches the end of the input is run ceil(N/100)
\* and leaves every record of the input in exactly one results file, at the
\* position of its row in its window, and the run after it resets the
\* checkpoint to 0 and processes nothing.
C28_SuccessiveWindows ==
    /\ []((~chaos /\ signals = 0 /\ pid >= 1) =>
            LET run == pid % (NumWindows + 1)
            IN  /\ started > 0 =>
                    /\ run \in 1..NumWindows
                    /\ startIndex = (run - 1) * RECORDS_PER_RUN
                    /\ endIndex = Min(run * RECORDS_PER_RUN, numRecords)
                /\ (pc = "exited" /\ started > 0) =>
                    /\ lastSave = endIndex
                    /\ \A r \in 1..run :
                           /\ outputs[r].status = "complete"
                           /\ Len(outputs[r].ids) = Cardinality(WindowOf(r))
                           /\ \A row \in WindowOf(r) :
                                  outputs[r].ids[(row % RECORDS_PER_RUN) + 1]
                                      = row
                /\ (pc = "exited" /\ started > 0 /\ endIndex = numRecords)
                       => run = NumWindows
                /\ (pc = "exited" /\ started = 0) =>
                    /\ run = 0
                    /\ lastSave = 0)
    /\ [][(~chaos /\ signals = 0 /\ pid >= 1 /\ pid' = pid + 1) =>
            startIndex' = IF started > 0 THEN endIndex ELSE 0]_vars

\* Over 103 records the first run wrote rows 0..99, the second rows 100..102,
\* and the third reset the checkpoint.
C28_Witness ==
    /\ ~chaos /\ signals = 0
    /\ numRecords = 103
    /\ pid = 3
    /\ pc = "exited" /\ started = 0
    /\ lastSave = 0
    /\ Len(outputs[1].ids) = 100
    /\ outputs[2].ids = <<100, 101, 102>>

\* C29: every value the program writes to progress.json is a whole number
\* from 0 to the number of input records, and so is every value read back
\* from it; the value a run writes when it leaves its batch loop on a
\* termination signal is the start of the next batch, which is below the
\* end of the run's window.
C29_CheckpointInRange ==
    /\ [](lastSave \in {-1} \cup 0..numRecords)
    /\ [](progressFile.kind = "json" =>
             \E c \in 0..numRecords : progressFile = ProgressFileOf(c))
    /\ [][progressFile' # progressFile =>
             /\ lastSave' \in 0..numRecords
             /\ progressFile' = ProgressFileOf(lastSave')]_vars
    /\ [][(pc' = "returned" /\ pc # "returned"
             /\ i' < NumBatches(startIndex, endIndex)) =>
             /\ lastSave' \in {-1, startIndex + i' * BATCH_SIZE}
             /\ startIndex + i' * BATCH_SIZE < endIndex
             /\ ~ioFault' => lastSave' = startIndex + i' * BATCH_SIZE]_vars

\* A run over 7 records was signalled during its first batch and left the
\* loop with the checkpoint at 5.
C29_Witness ==
    /\ pc = "returned"
    /\ numRecords = 7 /\ endIndex = 7
    /\ i = 1
    /\ lastSave = 5
    /\ progressFile = ProgressFileOf(5)

\* Requests settle and timers fire: every step of the running process other
\* than the arrival of a signal is eventually taken.
Fairness ==
    /\ WF_vars(FetchRespond)
    /\ WF_vars(BackoffDone)
    /\ WF_vars(PreDelayDone)
    /\ WF_vars(TriggerRespond)
    /\ WF_vars(PollSleepDone)
    /\ WF_vars(PollRespond)
    /\ WF_vars(ClassifyRespond)
    /\ WF_vars(InterDelayDone)
    /\ WF_vars(GraceExpire)
FairSpec == Spec /\ Fairness

\* C30: a process that has started comes to its exit, requests settling and
\* timers firing.  On the way fetchWithRetry makes at most 5 attempts for a
\* record, getProfileDescription at most 10 polls for a batch, the second
\* loop one call of the classifier for each pending record, and the batch
\* loop at most ceil(window / 5) <= 20 calls of processBatch.
C30_RunsTerminate ==
    /\ [](/\ attempt \in 1..maxRetries
          /\ attempts \in 0..maxAttempts
          /\ k >= 1
          /\ pc = "classify" => k <= Len(handleItems)
          /\ started <= NumBatches(startIndex, endIndex)
          /\ NumBatches(startIndex, endIndex) <= 20
          /\ endIndex - startIndex <= RECORDS_PER_RUN)
    /\ [][lastCall'.fn = "analyzeFounderProfile" =>
             /\ pc = "classify"
             /\ Len(AllResults') = Len(AllResults) + 1
             /\ pc' = "classify" => k' = k + 1
             /\ pc' # "classify" => k = Len(handleItems)]_vars
    /\ (pc \notin {"none", "exited"}) ~> (pc = "exited")

\* A run over a full window ended after 20 batches without a signal.
C30_Witness ==
    /\ pc = "exited" /\ sig = "none" /\ exitCode = 0
    /\ started = 20
    /\ endIndex - startIndex = RECORDS_PER_RUN
    /\ Len(currentResults) = RECORDS_PER_RUN

\* C31 (as claimed): every ProfileData of the list getProfileDescription
\* returned has canDm true, be it a success, a not-found or an API-error
\* entry, and every processed ResultRecord has dm_status 'open'.
C31_AlwaysCanDm ==
    /\ pc = "classify" =>
           \A p \in 1..Len(profileDataArray) :
               profileDataArray[p].canDm = "true"
    /\ \A q \in 1..Len(AllResults) :
           AllResults[q].status = "processed" =>
               AllResults[q].dm_status = "open"

(***************************************************************************)
(* extractMainProfileLink as a function of its argument: a call with a     *)
(* list of at most two links, or with null, and its return.  lastCall      *)
(* holds the argument (organic) and the value returned (link); nothing     *)
(* else of the program moves.                                              *)
(***************************************************************************)
LinkLists == ShortSeqs(Links) \cup {NullLinks}
ExtractCalled(links) ==
    [fn |-> "extractMainProfileLink", value |-> "called", attempts |-> 0,
     json |-> NullJSON, organic |-> links, link |-> UndefinedLink]
ExtractReturned(links, link) ==
    [fn |-> "extractMainProfileLink", value |-> "returned", attempts |-> 0,
     json |-> NullJSON, organic |-> links, link |-> link]

ExtractInit ==
    /\ numRecords = 0 /\ chaos = FALSE /\ env = NominalEnv
    /\ progressFile = Missing
    /\ outputs = [path \in OutPaths |-> NoFile]
    /\ pid = 0 /\ pc = "none" /\ exitCode = 0
    /\ isProcessing = TRUE /\ sig = "none"
    /\ currentResults = <<>>
    /\ startIndex = 0 /\ endIndex = 0 /\ i = 0
    /\ j = 1 /\ attempt = 1 /\ batchResults = <<>> /\ handleItems = <<>>
    /\ delay = 0
    /\ attempts = 0 /\ finalJSON = NullJSON /\ profileDataArray = <<>>
    /\ k = 1
    /\ started = 0 /\ appended = 0 /\ sigBatch = -1 /\ signals = 0
    /\ ioFault = FALSE /\ lastSave = -1 /\ writes = NoWrites
    /\ \E links \in LinkLists : lastCall = ExtractCalled(links)

ExtractReturn ==
    /\ lastCall.value = "called"
    /\ lastCall' = ExtractReturned(lastCall.organic,
                                   extractMainProfileLink(lastCall.organic))
    /\ UNCHANGED <<fsVars, procVars, batchVars, histKeep>>

ExtractSpec == ExtractInit /\ [][ExtractReturn]_vars

\* The link parses as a URL whose path has exactly one non-empty segment and
\* whose query string is empty.
SingleSegment(l) ==
    /\ l.parses
    /\ Cardinality({q \in 1..Len(l.path) : l.path[q] # ""}) = 1
    /\ l.query = ""
HasSingleSegment(links) ==
    links # NullLinks /\ \E p \in 1..Len(links) : SingleSegment(links[p])
FirstSingleSegment(links) ==
    links[CHOOSE p \in 1..Len(links) :
              /\ SingleSegment(links[p])
              /\ \A q \in 1..(p - 1) : ~SingleSegment(links[q])]

\* C32 (as claimed): extractMainProfileLink returns the first link of the
\* list with one non-empty path segment and no query string, and null when
\* the list is missing, empty or holds no such link.
C32_FirstOrNull ==
    lastCall.value = "returned" =>
        lastCall.link = IF HasSingleSegment(lastCall.organic)
                        THEN FirstSingleSegment(lastCall.organic)
                        ELSE NullLink

(***************************************************************************)
(* The classifier's request.  The record's company is held by its idx.     *)
(***************************************************************************)
\* Lines 452-456: the argument of analyzeFounderProfile for pending item hi.
ProfileArg(hi, profileData) ==
    [handle |-> hi.handle, description |-> profileData.description,
     company |-> hi.idx]
\* Lines 317-325: the prompt, by the values its template interpolates:
\* profile.handle, profile.company and profile.profile_url, a field the
\* caller does not pass.
Prompt(profile) ==
    [handle |-> profile.handle, company |-> profile.company,
     profile_url |-> Undefined]
\* The prompt of the request in flight while pc = "classify".
SentPrompt == Prompt(ProfileArg(handleItems[k], profileDataArray[k]))
\* Descriptions a ProfileData can carry.
Descriptions == {"", "bio", Undefined}

\* C33 (as claimed): the prompt of a classifier request depends on the
\* description passed with the record: the request in flight would carry
\* another prompt had the poller returned another description for the same
\* handle and company.
C33_PromptHasDescription ==
    pc = "classify" =>
        LET profile == ProfileArg(handleItems[k], profileDataArray[k])
        IN  \A d \in Descriptions \ {profile.description} :
                Prompt([profile EXCEPT !.description = d]) # SentPrompt

(***************************************************************************)
(* sample_output.js, the whole program: processFounders reads input.csv,   *)
(* cuts it into batches of five, runs processBatch on each, pushes its     *)
(* results on global.currentResults, waits 4 s between two batches and     *)
(* writes output.json; handleShutdown ends it on a signal.  It keeps no    *)
(* checkpoint and no window.  processBatch works record by record: the     *)
(* search (fetchWithRetry, lines 55-116) and the extraction (119-161) are  *)
(* those of processFounders.js, with the same RETRY_CONFIG (47-53) and the *)
(* same batch size (417) and pause (451); a record with a handle goes      *)
(* through checkDmStatus (an Apify actor run, then up to three reads of    *)
(* its dataset) and, if its DMs are open, the classifier.                  *)
(*                                                                         *)
(* The program's variables are held by those of the same role above: i is  *)
(* the batch and j the record at work, attempt the search attempt,         *)
(* handleItems the handle and link of the record at work, attempts the     *)
(* dataset reads left (retries), finalJSON what the Apify client last      *)
(* resolved with (run while the 5 s timer pends, items after a read),      *)
(* profileDataArray the dmStatus handed to the classifier, and             *)
(* outputs[PartialPath] is output.json.  The `test` mode of lines 494-497, *)
(* one call of checkDmStatus printed to the console, is another program.    *)
(***************************************************************************)
NullText == "null"
\* The return values of checkDmStatus (lines 204-242).
DmStatus(status, canDm, description, reason) ==
    [status |-> status, canDm |-> canDm, description |-> description,
     reason |-> reason]
DmNotFound == DmStatus("error", "false", NullText, "Profile data not found")
DmNoAuthor == DmStatus("error", "false", NullText, "Missing profile data")
\* Lines 235-242: the catch, reason being `API Error: ${error.message}`.
DmApiError(reason) == DmStatus("error", "false", NullText, reason)
\* userData: canDm truthy or not, and the description.
Author(canDm, description) == [canDm |-> canDm, description |-> description]
Authors == {Author(c, d) : c \in BOOLEAN, d \in {Undefined, "bio"}}
DmSuccess(userData) ==
    DmStatus("success",
             IF userData.canDm THEN "true" ELSE "false",
             OrEmpty(userData.description),
             IF userData.canDm THEN "DMs are open" ELSE "DMs are closed")
NoAuthor == Author(FALSE, "no author")

\* What the actor call (169-177) settles with: a run, null, or a rejection.
ActorRuns == IF chaos THEN {"run", "null", "rejects"} ELSE {"run"}
\* What one read of the dataset (187) settles with: a rejection; null; a
\* dataset with items missing, [], [{noResults: true}], [null] or {} (no
\* array: it has no length and no first item); one whose first item has no
\* author; one whose first item has an author.
DatasetRead(kind, author) == [kind |-> kind, author |-> author]
AllDatasetReads ==
    {DatasetRead(kd, NoAuthor) :
        kd \in {"rejects", "null", "noitems", "empty", "noresults",
                "nullitem", "object", "noauthor"}}
    \cup {DatasetRead("author", a) : a \in Authors}
DatasetReads ==
    IF chaos THEN AllDatasetReads
    ELSE {DatasetRead("author", Author(c, "bio")) : c \in BOOLEAN}
\* Line 190: `items && items.length > 0 && !items[0].noResults` is false.
ItemsInvalid(kind) == kind \in {"noitems", "empty", "noresults", "object"}
dmRetries == 3
dmPreDelay == 2000
dmDatasetDelay == 5000
dmRetryDelay == 3000

\* dmStatus.description || ""
DmDescription(dmStatus) ==
    IF dmStatus.description \in {NullText, Undefined} THEN ""
    ELSE dmStatus.description

\* Lines 329-358: the result entry of a record whose DM check returned
\* dmStatus; analysed tells whether the classifier was called.
SampleEntry(hi, dmStatus, analysed, analysis) ==
    [idx |-> hi.idx, status |-> "processed",
     reason |-> IF analysed THEN Undefined ELSE dmStatus.reason,
     handle |-> hi.handle, profile_url |-> hi.mainProfileUrl,
     dm_status |-> IF dmStatus.canDm = "true" THEN "open" ELSE "closed",
     description |-> DmDescription(dmStatus),
     analysis |-> IF analysed THEN analysis ELSE NoVerdict]

\* A test that lets every record through to the classifier.
ShouldAnalyzeAlways(dmStatus) == TRUE
\* Line 343: dmStatus.status === 'success' && dmStatus.canDm === true
ShouldAnalyze(dmStatus) ==
    dmStatus.status = "success" /\ dmStatus.canDm = "true"

DmReturned(dmStatus) ==
    [fn |-> "checkDmStatus", value |-> dmStatus.status, attempts |-> 0,
     json |-> NullJSON, organic |-> <<>>, dm |-> dmStatus]

\* What sample_output.js has not: credentials, checkpoint, window.
sampleFrame == <<numRecords, chaos, env, progressFile, startIndex, endIndex,
                 k, lastSave>>
\* What only the start of the process and handleShutdown change.
sampleShutdown == <<pid, isProcessing, sig, sigBatch, signals>>
\* What processFounders changes between two calls of processBatch.
sampleRun == <<exitCode, currentResults, i, outputs, started, appended,
               ioFault, writes>>

\* The rows of input.csv: up to MaxSampleBatch with the services free, or
\* SampleNominalSize, two batches, with the services answering as meant.
MaxSampleBatch == 2
SampleNominalSize == 6

\* Before `node sample_output.js`: no output.json in the working directory.
SampleInit ==
    /\ chaos \in BOOLEAN
    /\ numRecords \in IF chaos THEN 0..MaxSampleBatch ELSE {SampleNominalSize}
    /\ env = NominalEnv
    /\ progressFile = Missing
    /\ outputs = [path \in OutPaths |-> NoFile]
    /\ pid = 0 /\ pc = "none" /\ exitCode = 0
    /\ isProcessing = TRUE /\ sig = "none"
    /\ currentResults = <<>>
    /\ startIndex = 0 /\ endIndex = 0 /\ i = 0
    /\ j = 1 /\ attempt = 1 /\ batchResults = <<>> /\ handleItems = <<>>
    /\ delay = 0
    /\ attempts = 0 /\ finalJSON = NullJSON /\ profileDataArray = <<>>
    /\ k = 1
    /\ started = 0 /\ appended = 0 /\ sigBatch = -1 /\ signals = 0
    /\ ioFault = FALSE /\ lastSave = -1 /\ writes = NoWrites
    /\ lastCall = NoCall

\* Lines 457-472: the loop ended with isProcessing true; output.json is
\* written with status 'complete'.  A failing write throws to the top level,
\* which exits with code 1; else the process ends by itself.
SampleComplete(cr) ==
    /\ pc' = "exited"
    /\ \E written \in WriteOutcomes :
          /\ outputs' = IF written
                        THEN [outputs EXCEPT ![PartialPath] =
                                OutputOf(cr, "complete")]
                        ELSE outputs
          /\ writes' = IF written
                       THEN [writes EXCEPT ![PartialPath] = @ + 1]
                       ELSE writes
          /\ exitCode' = IF written THEN 0 ELSE 1
          /\ ioFault' = (ioFault \/ ~written)

\* Lines 439-446 and 457: the head of the batch loop with index b, cr being
\* global.currentResults: the loop is left on a cleared flag, or the first
\* search of batches[b] is sent, or the loop is over.
SampleLoopHead(b, cr) ==
    /\ i' = b
    /\ IF b < NumBatches(0, numRecords) /\ isProcessing
       THEN /\ pc' = "fetch"
            /\ started' = started + 1
            /\ exitCode' = -1
            /\ UNCHANGED <<outputs, writes, ioFault>>
       ELSE /\ started' = started
            /\ IF isProcessing
               THEN SampleComplete(cr)
               ELSE /\ pc' = "returned"
                    /\ exitCode' = -1
                    /\ UNCHANGED <<outputs, writes, ioFault>>

\* Lines 446-454: processBatch returned results.
SampleReturnBatch(results) ==
    LET cr == PushAll(currentResults, results)
    IN  /\ currentResults' = cr
        /\ appended' = appended + 1
        /\ j' = 1
        /\ batchResults' = <<>>
        /\ IF i < NumBatches(0, numRecords) - 1 /\ isProcessing
           THEN /\ pc' = "interDelay"
                /\ delay' = batchDelay
                /\ UNCHANGED <<i, exitCode, outputs, started, ioFault,
                               writes>>
           ELSE /\ delay' = 0
                /\ SampleLoopHead(i + 1, cr)

\* The end of the loop body for record j, results being batchResults after
\* it: the next record's search, or the return of processBatch.
SampleNextRecord(results) ==
    /\ attempt' = 1
    /\ handleItems' = <<>>
    /\ profileDataArray' = <<>>
    /\ attempts' = 0
    /\ finalJSON' = NullJSON
    /\ IF j < BatchLen(0, numRecords, i)
       THEN /\ j' = j + 1
            /\ pc' = "fetch"
            /\ batchResults' = results
            /\ delay' = 0
            /\ UNCHANGED sampleRun
       ELSE SampleReturnBatch(results)

\* `node sample_output.js`: module load, then processFounders() up to its
\* first await.  The load throws when a client's constructor rejects its
\* missing key (lines 37-44), and readCSV may throw, which the top level
\* answers with process.exit(1): either way the process ends with code 1.
SampleStart ==
    /\ pc = "none"
    /\ pid' = pid + 1
    /\ currentResults' = <<>>
    /\ lastCall' = NoCall
    /\ \E loaded, csvOk \in IF chaos THEN BOOLEAN ELSE {TRUE} :
          IF loaded /\ csvOk
          THEN SampleLoopHead(0, <<>>)
          ELSE /\ pc' = "exited"
               /\ exitCode' = 1
               /\ UNCHANGED <<i, outputs, started, ioFault, writes>>
    /\ UNCHANGED <<isProcessing, sig, sigBatch, signals, appended, batchVars,
                   sampleFrame>>

\* The request of fetchWithRetry(url, attempt) for record j settles (lines
\* 55-116); when the call returns, lines 284-321 follow.
SampleSearchRespond ==
    /\ pc = "fetch"
    /\ \E response \in FetchResponses :
        IF AttemptFails(response) /\ ~RetriesExhausted(attempt)
        THEN /\ pc' = "backoff"
             /\ delay' = BackoffDelay(attempt)
             /\ lastCall' = NoCall
             /\ UNCHANGED <<j, attempt, batchResults, handleItems, attempts,
                            finalJSON, profileDataArray, sampleRun>>
        ELSE LET searchData == IF AttemptFails(response) THEN NullData
                               ELSE AttemptValue(response)
                 step == FirstLoopBody(ItemIdx(0, i, j), searchData)
             IN  /\ lastCall' = FetchReturned(
                                    IF AttemptFails(response) THEN "null"
                                    ELSE response.kind,
                                    attempt, searchData.organic)
                 /\ IF step.pend
                    THEN /\ handleItems' = <<step.item>>
                         /\ pc' = "preDelay"
                         /\ delay' = dmPreDelay
                         /\ UNCHANGED <<j, attempt, batchResults, attempts,
                                        finalJSON, profileDataArray,
                                        sampleRun>>
                    ELSE SampleNextRecord(Append(batchResults, step.record))
    /\ UNCHANGED <<sampleShutdown, sampleFrame>>

\* Lines 106-114: the backoff timer fires; the next attempt's request.
SampleBackoffDone ==
    /\ pc = "backoff"
    /\ pc' = "fetch"
    /\ attempt' = attempt + 1
    /\ delay' = 0
    /\ lastCall' = NoCall
    /\ UNCHANGED <<j, batchResults, handleItems, attempts, finalJSON,
                   profileDataArray, sampleRun, sampleShutdown, sampleFrame>>

\* Line 327: the 2 s timer fires; checkDmStatus starts the actor run.
SampleDelayDone ==
    /\ pc = "preDelay"
    /\ pc' = "dmActor"
    /\ delay' = 0
    /\ lastCall' = NoCall
    /\ UNCHANGED <<j, attempt, batchResults, handleItems, attempts, finalJSON,
                   profileDataArray, sampleRun, sampleShutdown, sampleFrame>>

\* Lines 326-358 once checkDmStatus has returned dmStatus: the classifier's
\* request, or the entry with the DM check's reason.
SampleAfterDm(dmStatus) ==
    /\ lastCall' = DmReturned(dmStatus)
    /\ IF ShouldAnalyze(dmStatus)
       THEN /\ pc' = "classify"
            /\ profileDataArray' = <<dmStatus>>
            /\ attempts' = 0
            /\ finalJSON' = NullJSON
            /\ delay' = 0
            /\ UNCHANGED <<j, attempt, batchResults, handleItems, sampleRun>>
       ELSE SampleNextRecord(
                Append(batchResults,
                       SampleEntry(handleItems[1], dmStatus, FALSE,
                                   NoVerdict)))

\* Lines 169-180: the actor call settles.  A rejection is caught at once;
\* any value it resolves with, null too, is held while the 5 s timer runs.
DmActorRespond ==
    /\ pc = "dmActor"
    /\ \E run \in ActorRuns :
        IF run = "rejects"
        THEN SampleAfterDm(DmApiError("API Error: Request failed"))
        ELSE /\ pc' = "dmWait"
             /\ finalJSON' = Snapshot(run, <<>>)
             /\ delay' = dmDatasetDelay
             /\ lastCall' = NoCall
             /\ UNCHANGED <<j, attempt, batchResults, handleItems, attempts,
                            profileDataArray, sampleRun>>
    /\ UNCHANGED <<sampleShutdown, sampleFrame>>

\* Lines 180-187: the 5 s timer fires.  Reading defaultDatasetId of a null
\* run throws into the catch; else the first read of the dataset is sent.
DmWaitDone ==
    /\ pc = "dmWait"
    /\ IF finalJSON.kind = "null"
       THEN SampleAfterDm(DmApiError(
                "API Error: Cannot read properties of null (reading 'defaultDatasetId')"))
       ELSE /\ pc' = "dmList"
            /\ attempts' = dmRetries
            /\ delay' = 0
            /\ lastCall' = NoCall
            /\ UNCHANGED <<j, attempt, batchResults, handleItems, finalJSON,
                           profileDataArray, sampleRun>>
    /\ UNCHANGED <<sampleShutdown, sampleFrame>>

\* Lines 187-196 and 203-232: a read of the dataset settles.  Reading items
\* of a null dataset, or noResults of a null first item, throws into the
\* catch.
DmListRespond ==
    /\ pc = "dmList"
    /\ \E read \in DatasetReads :
        IF read.kind = "rejects"
        THEN SampleAfterDm(DmApiError("API Error: Request failed"))
        ELSE IF read.kind = "null"
        THEN SampleAfterDm(DmApiError(
                 "API Error: Cannot read properties of null (reading 'items')"))
        ELSE IF read.kind = "nullitem"
        THEN SampleAfterDm(DmApiError(
                 "API Error: Cannot read properties of null (reading 'noResults')"))
        ELSE IF ItemsInvalid(read.kind)
        THEN /\ pc' = "dmRetry"
             /\ finalJSON' = Snapshot(read.kind, <<>>)
             /\ delay' = dmRetryDelay
             /\ lastCall' = NoCall
             /\ UNCHANGED <<j, attempt, batchResults, handleItems, attempts,
                            profileDataArray, sampleRun>>
        ELSE IF read.kind = "noauthor" THEN SampleAfterDm(DmNoAuthor)
        ELSE SampleAfterDm(DmSuccess(read.author))
    /\ UNCHANGED <<sampleShutdown, sampleFrame>>

\* Lines 196-197 and 203-211: the 3 s timer fires; the next read, or none
\* is left.  Then line 203 tests the items of the last read: on items that
\* are no array it reads noResults of an undefined first item and throws
\* into the catch, on the others the profile counts as not found.
DmRetryDone ==
    /\ pc = "dmRetry"
    /\ IF attempts - 1 > 0
       THEN /\ pc' = "dmList"
            /\ attempts' = attempts - 1
            /\ delay' = 0
            /\ lastCall' = NoCall
            /\ UNCHANGED <<j, attempt, batchResults, handleItems, finalJSON,
                           profileDataArray, sampleRun>>
       ELSE IF finalJSON.kind = "object"
       THEN SampleAfterDm(DmApiError(
                "API Error: Cannot read properties of undefined (reading 'noResults')"))
       ELSE SampleAfterDm(DmNotFound)
    /\ UNCHANGED <<sampleShutdown, sampleFrame>>

\* Lines 344-358: the classifier's request settles.
SampleClassifyRespond ==
    /\ pc = "classify"
    /\ \E response \in ClassifierResponses :
        LET analysis == IF response = "verdict" THEN Verdict ELSE NoVerdict
        IN  /\ SampleNextRecord(
                   Append(batchResults,
                          SampleEntry(handleItems[1], profileDataArray[1],
                                      TRUE, analysis)))
            /\ lastCall' = AnalysisReturned(response)
    /\ UNCHANGED <<sampleShutdown, sampleFrame>>

\* Line 453: the 4 s timer between two batches fires.
SampleInterDelayDone ==
    /\ pc = "interDelay"
    /\ SampleLoopHead(i + 1, currentResults)
    /\ delay' = 0
    /\ lastCall' = NoCall
    /\ UNCHANGED <<currentResults, appended, j, attempt, batchResults,
                   handleItems, attempts, finalJSON, profileDataArray,
                   sampleShutdown, sampleFrame>>

\* Where the main flow of sample_output.js can be suspended.
SampleAwaitStates == {"fetch", "backoff", "preDelay", "dmActor", "dmWait",
                      "dmList", "dmRetry", "classify", "interDelay"}

\* SIGINT or SIGTERM: handleShutdown up to its await (lines 385-391).  A
\* further signal during the grace period starts a later timer, which the
\* first timer's process.exit precedes: it is left out.
SampleSignal ==
    /\ pc \in SampleAwaitStates
    /\ sig = "none"
    /\ signals < MaxSignals
    /\ isProcessing' = FALSE
    /\ sig' = "grace"
    /\ signals' = signals + 1
    /\ sigBatch' = IF pc = "interDelay" THEN -1 ELSE i
    /\ lastCall' = NoCall
    /\ UNCHANGED <<pid, pc, batchVars, sampleRun, sampleFrame>>

\* The grace timer of handleShutdown fires (lines 393-411): output.json is
\* written with status 'partial_results' if there are results, and the
\* process exits.  A failing write rejects handleShutdown's promise, which
\* ends the process with code 1.
SampleGraceExpire ==
    /\ sig = "grace"
    /\ pc \in SampleAwaitStates \cup {"returned"}
    /\ pc' = "exited"
    /\ IF Len(currentResults) > 0
       THEN \E written \in WriteOutcomes :
               /\ outputs' = IF written
                             THEN [outputs EXCEPT ![PartialPath] =
                                     OutputOf(currentResults,
                                              "partial_results")]
                             ELSE outputs
               /\ writes' = IF written
                            THEN [writes EXCEPT ![PartialPath] = @ + 1]
                            ELSE writes
               /\ exitCode' = IF written THEN 0 ELSE 1
               /\ ioFault' = (ioFault \/ ~written)
       ELSE /\ exitCode' = 0
            /\ UNCHANGED <<outputs, writes, ioFault>>
    /\ lastCall' = NoCall
    /\ UNCHANGED <<currentResults, i, started, appended, batchVars,
                   sampleShutdown, sampleFrame>>

SampleNext ==
    \/ SampleStart
    \/ SampleSearchRespond
    \/ SampleBackoffDone
    \/ SampleDelayDone
    \/ DmActorRespond
    \/ DmWaitDone
    \/ DmListRespond
    \/ DmRetryDone
    \/ SampleClassifyRespond
    \/ SampleInterDelayDone
    \/ SampleSignal
    \/ SampleGraceExpire

SampleSpec == SampleInit /\ [][SampleNext]_vars

\* The records the run has produced so far, in the order of their pushes.
SampleRecords == currentResults \o batchResults

\* C34: in sample_output.js the classifier is called for a record only when
\* its DM check returned status 'success' with canDm true.  For every other
\* return of the DM check the record gets at once its one ResultRecord, of
\* status 'processed', with the DM check's reason and without role, rank or
\* confidence_reason; a record sent to the classifier gets its one record
\* when the classifier's request settles.  The run holds one record for
\* each input record it is done with, in input order, and every batch that
\* returned has given one record for each of its records.
C34_ClassifyOnlyOpenDm ==
    /\ [](pc = "classify" =>
             /\ Len(profileDataArray) = 1
             /\ profileDataArray[1].status = "success"
             /\ profileDataArray[1].canDm = "true")
    /\ [](\A p \in 1..Len(SampleRecords) : SampleRecords[p].idx = p - 1)
    /\ [](Len(currentResults) = Min(appended * BATCH_SIZE, numRecords))
    /\ [][lastCall'.fn = "checkDmStatus" =>
             LET dm == lastCall'.dm
                 before == SampleRecords
                 after == currentResults' \o batchResults'
             IN  IF dm.status = "success" /\ dm.canDm = "true"
                 THEN /\ pc' = "classify"
                      /\ after = before
                 ELSE /\ pc' # "classify"
                      /\ Len(after) = Len(before) + 1
                      /\ SubSeq(after, 1, Len(before)) = before
                      /\ LET entry == after[Len(after)]
                         IN  /\ entry.idx = handleItems[1].idx
                             /\ entry.handle = handleItems[1].handle
                             /\ entry.status = "processed"
                             /\ entry.reason = dm.reason
                             /\ entry.analysis = NoVerdict]_vars
    /\ [][lastCall'.fn = "analyzeFounderProfile" =>
             LET after == currentResults' \o batchResults'
             IN  /\ pc = "classify"
                 /\ Len(after) = Len(SampleRecords) + 1
                 /\ SubSeq(after, 1, Len(SampleRecords)) = SampleRecords
                 /\ after[Len(after)].idx = handleItems[1].idx
                 /\ after[Len(after)].status = "processed"]_vars

\* The DM check of the second and last record of the input returned that
\* its DMs are closed: the record got its entry without a call of the
\* classifier, and the run wrote both records to output.json.
C34_Witness ==
    /\ lastCall.fn = "checkDmStatus"
    /\ lastCall.dm.status = "success"
    /\ lastCall.dm.canDm = "false"
    /\ pc = "exited"
    /\ Len(currentResults) = 2
    /\ currentResults[2].status = "processed"
    /\ currentResults[2].dm_status = "closed"
    /\ currentResults[2].reason = "DMs are closed"
    /\ currentResults[2].analysis = NoVerdict
    /\ outputs[PartialPath] = OutputOf(currentResults, "complete")

====
